---- MODULE Spec2Model ----
(***************************************************************************)
(* Cache & resource coordination layer of JobStalker:                      *)
(*   - LRUCache      (job_stalker/cache.py)                                *)
(*   - DatabasePool  (job_stalker/database.py)                             *)
(* Time is the integer clock `now`; durations are integers on that clock.  *)
(***************************************************************************)
EXTENDS Integers, Sequences, FiniteSets, TLC

\* ------------------------------------------------------------------ bounds
MaxClock == 2      \* the clock runs 0..MaxClock
MaxGets  == 2      \* LRUCache.get is called at most MaxGets times (caps _hits/_misses)
MaxPool  == 2      \* pool_size given to DatabasePool.__init__ is 1..MaxPool
MaxCalls == 2      \* each task makes at most MaxCalls calls on the pool
MaxCancels == 2    \* at most MaxCancels cancellations of tasks in all
MaxStateCalls == 2 \* each task makes at most MaxStateCalls calls on the AppState
MaxStatGets == 3   \* LRUCache.get is called at most MaxStatGets times where stats is read
PrefixLen == 2     \* the length texts are cut to for a key: stands for the 500 of cache.py:195
MaxText == 3
MaxConstructs == 2       \* vacancy and resume texts have at most MaxText characters

\* Inputs of the cache operations. SpecCache exercises expiry (clock, TTLs, values)
\* on small caches; SpecLru exercises recency on caches of up to three entries.
Keys        == {"a", "b", "c"}
LruKeys     == {"a", "b", "c", "d"}
Values      == {"v1", "v2"}
Capacities    == {1, 2}               \* max_size given to LRUCache.__init__ (SpecCache)
LruCapacities == {1, 2, 3}            \* max_size given to LRUCache.__init__ (SpecLru)
None        == "None"
TtlArgs     == {<<>>, <<0>>, <<1>>}   \* ttl argument of LRUCache.set: <<>> is None, <<t>> is t
DefaultTtls == {2}                    \* default_ttl given to LRUCache.__init__

\* Inputs of cached_ai_call and of the AIResponseCache.
AiTtls      == {0, 1}                  \* ttl argument of cached_ai_call
Chars       == {"x", "y"}              \* the characters of the texts
Models      == {"m1", "m2"}            \* model argument
Texts       == UNION {[1..n -> Chars] : n \in 0..MaxText}
TTL_RECRUITER_ANALYSIS == 1800
TTL_VACANCY_ANALYSIS == 3600

\* The tasks of the event loop that call into the pool.
Tasks  == {"t1", "t2", "t3"}
NoTask == "none"

\* The asyncio.Task handles given to AppState.start_monitoring.
Handles == {"h1", "h2"}

\* Arguments of AppState.update_stats (<<>> is None) and AppState.increment_stats.
UpdateArgs    == {[found |-> <<2>>, processed |-> <<>>]}
IncrementArgs == {[found |-> 1, processed |-> 0], [found |-> 1, processed |-> 1]}

\* Improvement tasks: vacancy ids, the statuses update_improvement_task is given, and
\* the max_completed given to cleanup_improvement_tasks.
VacancyIds   == {"va", "vb", "vc"}
StatusArgs   == {<<"va", "completed">>, <<"vb", "error">>, <<"vc", "completed">>}
MaxCompleted == {0, 1}

\* The callers of the improvement-task methods: the request handler registers a task,
\* the task reports its status when it ends, and a housekeeping job cleans up.
Handler     == "t1"
Improvement == "t2"
Housekeeper == "t3"

\* The Stage 2 analysis tasks.
Stage2 == {"s1", "s2"}

\* The threads that call AppState() and get_state().
Threads == {"w1", "w2"}

\* WebSocket clients, and the dead_clients lists given to cleanup_ws_clients.
Clients   == {"c1", "c2"}
DeadLists == {<<"c1">>, <<"c2", "c2">>}

\* The callers of the WebSocket methods: two connection handlers add and remove
\* clients, and the broadcaster cleans up the clients it could not reach.
Connections == {"t1", "t2"}
Broadcaster == "t3"

VARIABLES
  \* ---- LRUCache (cache.py:54-66)
  cache,        \* _cache: the OrderedDict, as the sequence of its entries in iteration order
  max_size,     \* max_size
  default_ttl,  \* default_ttl
  hits,         \* _hits
  misses,       \* _misses
  gets,         \* history: how many get calls were made
  now,          \* time.time()
  used,         \* history: the present keys, least recently set-or-read first
  last,         \* history: the last cache operation: its arguments, what it returned (ret, count),
                \* the keys it removed, and for a set the key a get returned just before it
  \* ---- cached_ai_call and AIResponseCache on that cache (cache.py:169-293)
  ai_call,      \* per task: its cached_ai_call: where it stands (pc), its cache_key and ttl,
                \* what it returned (ret), how often it called func (computes), and the
                \* number (n), key and result of the task's calls before it
  recruiter,    \* history: the arguments of the set_recruiter_analysis (v, r, m) and of the
                \* get_recruiter_analysis (gv, gr, gm) made so far (step: how many of the two),
                \* or of the set_vacancy_analysis and get_vacancy_analysis made in their
                \* place (cat, gcat: which of the two request categories was called)
  \* ---- DatabasePool (database.py:37-49)
  pool_size,    \* pool_size
  pool,         \* _pool: asyncio.Queue(maxsize=pool_size), as the sequence of queued connections
  connections,  \* _connections: the roster
  initialized,  \* _initialized
  lock_owner,   \* _lock: the task holding it, or NoTask
  lock_waiters, \* _lock: the tasks waiting for it, first come first
  created,      \* history: how often aiosqlite.connect was called; connections are 1..created
  closed,       \* history: the connections conn.close() was called on
  close_errors, \* history: the connections whose conn.close() raised
  \* ---- the tasks
  stack,        \* per task: its active calls, outermost first ("initialize", "acquire", "close")
  pc,           \* per task: where its innermost call stands
  conn,         \* per task: the local `conn` of its innermost call (0: none)
  made,         \* per task: iterations done of the loop of initialize
  raising,      \* per task: an exception (CancelledError, TimeoutError) is propagating
  calls,        \* per task: calls made so far
  cancels,      \* history: how many times a task was cancelled
  outcome,      \* per task: its outermost call and how that stands: "none" while it runs,
                \* "returned", or "raised" when an exception reached the task
  \* ---- AppState (state.py:56-92)
  monitoring_active,  \* _monitoring_active
  monitoring_task,    \* _monitoring_task: a handle, or None
  state_lock_owner,   \* _lock: the task holding it, or NoTask
  state_lock_waiters, \* _lock: the tasks waiting for it, first come first
  spc,                \* per task: where its call on the AppState stands
  sarg,               \* per task: the `task` argument of its start_monitoring
  sret,               \* per task: what its last call returned ("none": nothing yet)
  scalls,             \* per task: calls made so far
  starts,             \* history: what the start_monitoring calls returned since the last
                      \* stop_monitoring, in the order they returned
  recorded,           \* history: the handle of the start_monitoring that returned True since
                      \* the last stop_monitoring, or None
  stats,              \* _stats: the counters found and processed
  expect,             \* history: the counters as the calls give them, applied one after the
                      \* other in the order they returned
  asked,              \* history: the sum of the found deltas of the increment_stats calls
                      \* made so far, and whether no update_stats or reset_stats was called
  registry,           \* _improvement_tasks: the dict, as the sequence of its entries in
                      \* iteration order; reg: the number of the add that made the entry
  regs,               \* history: how many add_improvement_task calls have run
  pruned,             \* history: the entries the latest cleanup_improvement_tasks removed
  tracked,            \* _stage2_tasks
  s2,                 \* per Stage 2 task: "new" (not created), "running", "cancelling"
                      \* (cancel() was called on it), "done" (finished, failed or cancelled)
  snapshot,           \* per task: the local `tasks` of its cancel_all_stage2_tasks
  ws_clients,         \* _ws_clients: the list
  ws_lock_owner,      \* _ws_lock: the task holding it, or NoTask
  ws_lock_waiters,    \* _ws_lock: the tasks waiting for it, first come first
  ws_removed,         \* history: the clients the latest remove_ws_client or
                      \* cleanup_ws_clients took out of the list
  \* ---- the AppState singleton (state.py:46-62, 295-303)
  cls_instance,       \* AppState._instance: an object (its number), or 0 for None
  g_state,            \* the module's _state: an object, or 0 for None
  objs,               \* the AppState objects made so far: _initialized, and how often
                      \* __init__ has set their fields (inits)
  th                  \* per thread: where its call stands (pc), which call it is (via),
                      \* its `self`, what its last call returned (ret; 0: nothing yet) and
                      \* how many calls it made (n)

cacheVars == <<cache, max_size, default_ttl, hits, misses, gets, now, used, last>>
aiVars == <<ai_call, recruiter>>
poolVars == <<pool_size, pool, connections, initialized, lock_owner, lock_waiters,
              created, closed, close_errors, stack, pc, conn, made, raising, calls, cancels,
              outcome>>
stateVars == <<monitoring_active, monitoring_task, state_lock_owner, state_lock_waiters,
               spc, sarg, sret, scalls, starts, recorded, stats, expect, asked, registry,
               regs, pruned, tracked, s2, snapshot,
               ws_clients, ws_lock_owner, ws_lock_waiters, ws_removed,
               cls_instance, g_state, objs, th>>
monitoringFields == <<monitoring_active, monitoring_task, starts, recorded>>
statsFields == <<stats, expect, asked>>
registryFields == <<registry, regs, pruned>>
stage2Fields == <<tracked, s2, snapshot>>
wsFields == <<ws_clients, ws_lock_owner, ws_lock_waiters, ws_removed>>
singletonFields == <<cls_instance, g_state, objs, th>>
vars == <<cache, max_size, default_ttl, hits, misses, gets, now, used, last, ai_call, recruiter,
          pool_size, pool, connections, initialized, lock_owner, lock_waiters,
          created, closed, close_errors, stack, pc, conn, made, raising, calls, cancels,
          outcome,
          monitoring_active, monitoring_task, state_lock_owner, state_lock_waiters,
          spc, sarg, sret, scalls, starts, recorded, stats, expect, asked, registry,
          regs, pruned, tracked, s2, snapshot,
          ws_clients, ws_lock_owner, ws_lock_waiters, ws_removed,
          cls_instance, g_state, objs, th>>

\* ------------------------------------------------------- OrderedDict helpers
KeysOf(c) == {c[i].key : i \in DOMAIN c}

Without(c, key) == SelectSeq(c, LAMBDA e : e.key # key)

EntryOf(c, key) == c[CHOOSE i \in DOMAIN c : c[i].key = key]

\* OrderedDict.__setitem__: a present key keeps its position, a new key goes last.
DictSet(c, key, entry) ==
  IF key \in KeysOf(c)
    THEN [i \in DOMAIN c |-> IF c[i].key = key THEN entry ELSE c[i]]
    ELSE Append(c, entry)

\* a read that leaves the order alone
LeaveInPlace(c, key) == c

\* OrderedDict.move_to_end(key)
move_to_end(c, key) == Append(Without(c, key), EntryOf(c, key))

\* an entry that expires as soon as its age reaches its ttl
ExpiredAtTtl(e, t) == t - e.created_at >= e.ttl

\* CacheEntry.is_expired at clock t: time.time() - created_at > ttl
is_expired(e, t) == t - e.created_at > e.ttl

\* `ttl or self.default_ttl`: None and 0 are falsy
TtlOrDefault(ttl, dflt) == IF ttl = <<>> \/ ttl[1] = 0 THEN dflt ELSE ttl[1]

\* a set that never evicts
EvictNothing(c, cap) == c

\* while len(self._cache) >= self.max_size: del self._cache[next(iter(self._cache))]
RECURSIVE EvictWhileFull(_, _)
EvictWhileFull(c, cap) ==
  IF Len(c) >= cap /\ Len(c) > 0 THEN EvictWhileFull(Tail(c), cap) ELSE c

\* history: key becomes the most recently used one
Touch(u, key) == Append(SelectSeq(u, LAMBDA k : k # key), key)

\* history: only present keys are kept
Present(u, c) == SelectSeq(u, LAMBDA k : k \in KeysOf(c))

\* ---------------------------------------------------------------- LRUCache
InitCache ==
  /\ cache = <<>>
  /\ max_size \in Capacities \cup LruCapacities
  /\ default_ttl \in DefaultTtls
  /\ hits = 0
  /\ misses = 0
  /\ gets = 0
  /\ now = 0
  /\ used = <<>>
  /\ last = [op |-> "init", key |-> None, ttl |-> <<>>, ret |-> None, count |-> 0, after_hit |-> None, removed |-> {}]

\* a counter that is left as it is
Uncounted(n) == n

\* `self._misses += 1`, lines 74 and 79, and `self._hits += 1`, line 85
Counted(n) == n + 1

\* LRUCache.get, called at most `limit` times
GetUpTo(key, limit) ==
  /\ gets < limit
  /\ gets' = gets + 1
  /\ IF key \notin KeysOf(cache)
       THEN /\ misses' = Counted(misses)
            /\ UNCHANGED <<cache, hits>>
            /\ last' = [op |-> "get", key |-> key, ttl |-> <<>>, ret |-> None, count |-> 0, after_hit |-> None, removed |-> {}]
     ELSE IF is_expired(EntryOf(cache, key), now)
       THEN /\ cache' = Without(cache, key)
            /\ misses' = Counted(misses)
            /\ UNCHANGED hits
            /\ last' = [op |-> "get", key |-> key, ttl |-> <<>>, ret |-> None, count |-> 0, after_hit |-> None, removed |-> {key}]
       ELSE LET e == EntryOf(cache, key)
                moved == move_to_end(cache, key)
            IN /\ cache' = [moved EXCEPT ![Len(moved)].hits = e.hits + 1]
               /\ hits' = Counted(hits)
               /\ UNCHANGED misses
               /\ last' = [op |-> "get", key |-> key, ttl |-> <<>>, ret |-> e.value, count |-> 0, after_hit |-> None, removed |-> {}]
  /\ used' = IF last'.ret # None THEN Touch(used, key) ELSE Present(used, cache')
  /\ UNCHANGED <<max_size, default_ttl, now>>

\* LRUCache.get
get(key) == GetUpTo(key, MaxGets)

\* nearest integer to a / b (b > 0)
RoundDiv(a, b) == (2 * a + b) \div (2 * b)

\* LRUCache.stats, lines 148-149: _hits / total * 100, or 0 when total is 0, shown
\* by f"{hit_rate:.1f}%" of line 157: a percentage rounded to one decimal. The
\* value here is that number of tenths of a percent ("33.3%" is 333).
hit_rate(h, m) == IF h + m > 0 THEN RoundDiv(1000 * h, h + m) ELSE 0

\* LRUCache.stats
cache_stats ==
  [size |-> Len(cache), max_size |-> max_size, hits |-> hits, misses |-> misses,
   hit_rate |-> hit_rate(hits, misses)]

\* LRUCache.set
set(key, value, ttl) ==
  LET kept == EvictWhileFull(cache, max_size)
      entry == [key |-> key, value |-> value, created_at |-> now,
                ttl |-> TtlOrDefault(ttl, default_ttl), hits |-> 0, ttl_arg |-> ttl]
  IN /\ cache' = DictSet(kept, key, entry)
     /\ used' = Present(Touch(used, key), cache')
     /\ last' = [op |-> "set", key |-> key, ttl |-> ttl, ret |-> None, count |-> 0,
                 after_hit |-> IF last.op = "get" /\ last.ret # None THEN last.key ELSE None,
                 removed |-> KeysOf(cache) \ KeysOf(kept)]
     /\ UNCHANGED <<max_size, default_ttl, hits, misses, gets, now>>

\* LRUCache.delete
delete(key) ==
  /\ cache' = Without(cache, key)
  /\ used' = Present(used, cache')
  /\ last' = [op |-> "delete", key |-> key, ttl |-> <<>>,
              ret |-> IF key \in KeysOf(cache) THEN "True" ELSE "False", count |-> 0,
              after_hit |-> None, removed |-> KeysOf(cache) \cap {key}]
  /\ UNCHANGED <<max_size, default_ttl, hits, misses, gets, now>>

\* LRUCache.clear
clear ==
  /\ cache' = <<>>
  /\ used' = <<>>
  /\ last' = [op |-> "clear", key |-> None, ttl |-> <<>>, ret |-> None, count |-> Len(cache), after_hit |-> None,
              removed |-> KeysOf(cache)]
  /\ UNCHANGED <<max_size, default_ttl, hits, misses, gets, now>>

\* LRUCache.cleanup_expired
cleanup_expired ==
  LET expired_keys == {cache[i].key : i \in {j \in DOMAIN cache : is_expired(cache[j], now)}}
  IN /\ cache' = SelectSeq(cache, LAMBDA e : e.key \notin expired_keys)
     /\ used' = Present(used, cache')
     /\ last' = [op |-> "cleanup_expired", key |-> None, ttl |-> <<>>,
                 ret |-> None, count |-> Cardinality(expired_keys), after_hit |-> None, removed |-> expired_keys]
     /\ UNCHANGED <<max_size, default_ttl, hits, misses, gets, now>>

\* time passes between two calls
Tick ==
  /\ now < MaxClock
  /\ now' = now + 1
  /\ last' = [op |-> "tick", key |-> None, ttl |-> <<>>, ret |-> None, count |-> 0, after_hit |-> None, removed |-> {}]
  /\ UNCHANGED <<cache, max_size, default_ttl, hits, misses, gets, used>>

\* ------------------------------------------ cached_ai_call, AIResponseCache
\* nothing has been called yet
InitAi ==
  /\ ai_call = [t \in Tasks |-> [pc |-> "idle", key |-> None, ttl |-> <<>>, ret |-> None,
                                 computes |-> 0, n |-> 0, prev_key |-> None, prev_ret |-> None]]
  /\ recruiter = [step |-> 0, v |-> <<>>, r |-> <<>>, m |-> None, gv |-> <<>>, gr |-> <<>>, gm |-> None,
                  cat |-> None, gcat |-> None]

\* a result of any kind is stored
AlwaysWorth(result) == TRUE

\* `if result is not None`, line 290
Worth(result) == result # None

\* cached_ai_call, lines 280-288: the cache is read; a value found is returned, on a
\* miss func is called and the task waits for it
AiCallGet(t, cache_key, ttl) ==
  /\ ai_call[t].pc = "idle"
  /\ get(cache_key)
  /\ ai_call' = [ai_call EXCEPT ![t] =
       [pc |-> IF last'.ret # None THEN "idle" ELSE "compute",
        key |-> cache_key, ttl |-> <<ttl>>, ret |-> last'.ret,
        computes |-> IF last'.ret # None THEN 0 ELSE 1,
        n |-> @.n + 1, prev_key |-> @.key, prev_ret |-> @.ret]]
  /\ UNCHANGED recruiter

\* cached_ai_call, lines 288-293: func returns `result`, which is stored unless it is
\* None, and returned
AiCompute(t, result) ==
  /\ ai_call[t].pc = "compute"
  /\ IF Worth(result)
       THEN set(ai_call[t].key, result, ai_call[t].ttl)
       ELSE UNCHANGED cacheVars
  /\ ai_call' = [ai_call EXCEPT ![t].pc = "idle", ![t].ret = result]
  /\ UNCHANGED recruiter

\* s[:n]
Slice(s, n) == SubSeq(s, 1, IF Len(s) < n THEN Len(s) ELSE n)

\* hashlib.md5(...).hexdigest(), taken as injective: the digest stands for its input
md5(text) == <<"md5", text>>

\* AIResponseCache._make_key, lines 192-196
make_key(prompt, model) == <<model, md5(Slice(prompt, PrefixLen))>>

\* f"{vacancy_text[:500]}|{resume_text[:500]}", lines 224 and 236
combined(vacancy_text, resume_text) ==
  Slice(vacancy_text, PrefixLen) \o <<"|">> \o Slice(resume_text, PrefixLen)

\* AIResponseCache.set_recruiter_analysis, lines 228-238
set_recruiter_analysis(vacancy_text, resume_text, model, result) ==
  /\ recruiter.step = 0
  /\ set(make_key(combined(vacancy_text, resume_text), model), result, <<TTL_RECRUITER_ANALYSIS>>)
  /\ recruiter' = [recruiter EXCEPT !.step = 1, !.v = vacancy_text, !.r = resume_text, !.m = model,
                                     !.cat = "recruiter"]
  /\ UNCHANGED ai_call

\* AIResponseCache.get_recruiter_analysis, lines 217-226
get_recruiter_analysis(vacancy_text, resume_text, model) ==
  /\ recruiter.step = 1
  /\ get(make_key(combined(vacancy_text, resume_text), model))
  /\ recruiter' = [recruiter EXCEPT !.step = 2, !.gv = vacancy_text, !.gr = resume_text, !.gm = model,
                                     !.gcat = "recruiter"]
  /\ UNCHANGED ai_call

\* AIResponseCache.set_vacancy_analysis, lines 207-215
set_vacancy_analysis(vacancy_text, model, result) ==
  /\ recruiter.step = 0
  /\ set(make_key(vacancy_text, model), result, <<TTL_VACANCY_ANALYSIS>>)
  /\ recruiter' = [recruiter EXCEPT !.step = 1, !.v = vacancy_text, !.m = model, !.cat = "vacancy"]
  /\ UNCHANGED ai_call

\* AIResponseCache.get_vacancy_analysis, lines 198-205
get_vacancy_analysis(vacancy_text, model) ==
  /\ recruiter.step = 1
  /\ get(make_key(vacancy_text, model))
  /\ recruiter' = [recruiter EXCEPT !.step = 2, !.gv = vacancy_text, !.gm = model, !.gcat = "vacancy"]
  /\ UNCHANGED ai_call

\* DatabasePool.__init__
InitPool ==
  /\ pool_size \in 1..MaxPool
  /\ pool = <<>>
  /\ connections = <<>>
  /\ initialized = FALSE
  /\ lock_owner = NoTask
  /\ lock_waiters = <<>>
  /\ created = 0
  /\ closed = {}
  /\ close_errors = {}
  /\ stack = [t \in Tasks |-> <<>>]
  /\ pc = [t \in Tasks |-> "idle"]
  /\ conn = [t \in Tasks |-> 0]
  /\ made = [t \in Tasks |-> 0]
  /\ raising = [t \in Tasks |-> FALSE]
  /\ calls = [t \in Tasks |-> 0]
  /\ cancels = 0
  /\ outcome = [t \in Tasks |-> [call |-> "none", kind |-> "none"]]

\* ------------------------------------------------------------ DatabasePool
Top(t) == stack[t][Len(stack[t])]

Roster == {connections[i] : i \in DOMAIN connections}

\* a lock that never makes anybody wait
AlwaysFree == TRUE

\* asyncio.Lock.acquire returns at once: unlocked and nobody waiting
LockFree == lock_owner = NoTask /\ lock_waiters = <<>>

\* t has been given the lock it asked for (asyncio.Lock is not reentrant: a task
\* that holds the lock and asks again waits like any other)
Granted(t) == lock_owner = t /\ \A i \in DOMAIN lock_waiters : lock_waiters[i] # t

\* `async with self._lock`: t takes the lock, or queues for it
AfterRequest(t) ==
  IF LockFree THEN [owner |-> t, waiters |-> lock_waiters]
              ELSE [owner |-> lock_owner, waiters |-> Append(lock_waiters, t)]

\* asyncio.Lock.release: the first waiter, if any, is woken and takes the lock
AfterRelease(waiters) ==
  IF waiters = <<>> THEN [owner |-> NoTask, waiters |-> <<>>]
                    ELSE [owner |-> Head(waiters), waiters |-> Tail(waiters)]

\* an exception that leaves the lock and its waiters as they are
StayQueued(t) == [owner |-> lock_owner, waiters |-> lock_waiters]

\* an exception leaves every `async with self._lock` of t: a waiting t is dropped
\* from the queue, a lock t holds is released
AfterUnwind(t) ==
  LET w == SelectSeq(lock_waiters, LAMBDA u : u # t)
  IN IF lock_owner = t THEN AfterRelease(w) ELSE [owner |-> lock_owner, waiters |-> w]

\* the exception reaches the task's caller: all its calls are left
Unwind(t) ==
  /\ lock_owner' = AfterUnwind(t).owner
  /\ lock_waiters' = AfterUnwind(t).waiters
  /\ stack' = [stack EXCEPT ![t] = <<>>]
  /\ pc' = [pc EXCEPT ![t] = "idle"]
  /\ conn' = [conn EXCEPT ![t] = 0]
  /\ made' = [made EXCEPT ![t] = 0]
  /\ raising' = [raising EXCEPT ![t] = FALSE]
  /\ outcome' = [outcome EXCEPT ![t].kind = "raised"]

\* a task calls DatabasePool.initialize: lines 53-56, up to the wait for the lock
CallInitialize(t) ==
  /\ pc[t] = "idle"
  /\ calls[t] < MaxCalls
  /\ calls' = [calls EXCEPT ![t] = @ + 1]
  /\ IF initialized
       THEN UNCHANGED <<stack, pc, lock_owner, lock_waiters>>
       ELSE /\ stack' = [stack EXCEPT ![t] = <<"initialize">>]
            /\ pc' = [pc EXCEPT ![t] = "I_lock"]
            /\ lock_owner' = AfterRequest(t).owner
            /\ lock_waiters' = AfterRequest(t).waiters
  /\ outcome' = [outcome EXCEPT ![t] = [call |-> "initialize", kind |-> IF initialized THEN "returned" ELSE "none"]]
  /\ UNCHANGED <<pool_size, pool, connections, initialized, created, closed, close_errors, conn, made, raising, cancels>>

\* a task enters `async with pool.acquire()`: lines 99-100, then 53-56 of initialize
CallAcquire(t) ==
  /\ pc[t] = "idle"
  /\ calls[t] < MaxCalls
  /\ calls' = [calls EXCEPT ![t] = @ + 1]
  /\ IF initialized
       THEN /\ stack' = [stack EXCEPT ![t] = <<"acquire">>]
            /\ pc' = [pc EXCEPT ![t] = "A_get"]
            /\ UNCHANGED <<lock_owner, lock_waiters>>
       ELSE /\ stack' = [stack EXCEPT ![t] = <<"acquire", "initialize">>]
            /\ pc' = [pc EXCEPT ![t] = "I_lock"]
            /\ lock_owner' = AfterRequest(t).owner
            /\ lock_waiters' = AfterRequest(t).waiters
  /\ outcome' = [outcome EXCEPT ![t] = [call |-> "acquire", kind |-> "none"]]
  /\ UNCHANGED <<pool_size, pool, connections, initialized, created, closed, close_errors, conn, made, raising, cancels>>

\* a task calls DatabasePool.close: line 113, up to the wait for the lock
CallClose(t) ==
  /\ pc[t] = "idle"
  /\ calls[t] < MaxCalls
  /\ calls' = [calls EXCEPT ![t] = @ + 1]
  /\ stack' = [stack EXCEPT ![t] = <<"close">>]
  /\ pc' = [pc EXCEPT ![t] = "C_lock"]
  /\ lock_owner' = AfterRequest(t).owner
  /\ lock_waiters' = AfterRequest(t).waiters
  /\ outcome' = [outcome EXCEPT ![t] = [call |-> "close", kind |-> "none"]]
  /\ UNCHANGED <<pool_size, pool, connections, initialized, created, closed, close_errors, conn, made, raising, cancels>>

\* initialize returns to its caller: a task, or acquire at line 102
ReturnFromInitialize(t) ==
  LET rest == SubSeq(stack[t], 1, Len(stack[t]) - 1)
  IN /\ stack' = [stack EXCEPT ![t] = rest]
     /\ pc' = [pc EXCEPT ![t] = IF rest = <<>> THEN "idle" ELSE "A_get"]
     /\ outcome' = IF rest = <<>> THEN [outcome EXCEPT ![t].kind = "returned"] ELSE outcome

\* initialize holds the lock: the second check, lines 57-58
InitLocked(t) ==
  /\ pc[t] = "I_lock"
  /\ Top(t) = "initialize"
  /\ Granted(t)
  /\ IF initialized
       THEN /\ ReturnFromInitialize(t)
            /\ lock_owner' = AfterRelease(lock_waiters).owner
            /\ lock_waiters' = AfterRelease(lock_waiters).waiters
            /\ UNCHANGED made
       ELSE /\ pc' = [pc EXCEPT ![t] = "I_connect"]
            /\ made' = [made EXCEPT ![t] = 0]
            /\ UNCHANGED <<stack, lock_owner, lock_waiters, outcome>>
  /\ UNCHANGED <<pool_size, pool, connections, initialized, created, closed, close_errors, conn, raising, calls, cancels>>

\* `await aiosqlite.connect(...)`, lines 65-68: one connection is made
InitConnect(t) ==
  /\ pc[t] = "I_connect"
  /\ created' = created + 1
  /\ conn' = [conn EXCEPT ![t] = created + 1]
  /\ pc' = [pc EXCEPT ![t] = "I_pragma"]
  /\ UNCHANGED <<pool_size, pool, connections, initialized, lock_owner, lock_waiters, closed, close_errors,
                 stack, made, raising, calls, cancels, outcome>>

\* `await aiosqlite.connect(...)` raises, lines 65-68: the exception leaves the loop,
\* the `async with self._lock` and initialize; nothing else is done on the way
InitConnectFails(t) ==
  /\ pc[t] = "I_connect"
  /\ Unwind(t)
  /\ UNCHANGED <<pool_size, pool, connections, initialized, created, closed, close_errors, calls, cancels>>

\* the loop goes on after a put: the next iteration, or line 77
AfterPut(t) ==
  /\ conn' = [conn EXCEPT ![t] = 0]
  /\ made' = [made EXCEPT ![t] = @ + 1]
  /\ pc' = [pc EXCEPT ![t] = IF made[t] + 1 < pool_size THEN "I_connect" ELSE "I_schema"]

\* after the PRAGMAs the connection is entered in the roster and put in the queue,
\* lines 70-74; `await self._pool.put(conn)` waits while the queue is full
InitAppend(t) ==
  /\ pc[t] = "I_pragma"
  /\ connections' = Append(connections, conn[t])
  /\ IF Len(pool) < pool_size
       THEN /\ pool' = Append(pool, conn[t])
            /\ AfterPut(t)
       ELSE /\ pc' = [pc EXCEPT ![t] = "I_put"]
            /\ UNCHANGED <<pool, conn, made>>
  /\ UNCHANGED <<pool_size, initialized, lock_owner, lock_waiters, created, closed, close_errors, stack,
                 raising, calls, cancels, outcome>>

\* a put of line 74 that had to wait goes on once the queue has room
InitPut(t) ==
  /\ pc[t] = "I_put"
  /\ Len(pool) < pool_size
  /\ pool' = Append(pool, conn[t])
  /\ AfterPut(t)
  /\ UNCHANGED <<pool_size, connections, initialized, lock_owner, lock_waiters, created, closed, close_errors,
                 stack, raising, calls, cancels, outcome>>

\* `async with self.acquire()`, line 77: acquire checks _initialized (line 99) and,
\* as it is still False, calls initialize (line 100), which asks for the lock
InitSchemaAcquire(t) ==
  /\ pc[t] = "I_schema"
  /\ IF initialized
       THEN /\ stack' = [stack EXCEPT ![t] = Append(@, "acquire")]
            /\ pc' = [pc EXCEPT ![t] = "A_get"]
            /\ UNCHANGED <<lock_owner, lock_waiters>>
       ELSE /\ stack' = [stack EXCEPT ![t] = @ \o <<"acquire", "initialize">>]
            /\ pc' = [pc EXCEPT ![t] = "I_lock"]
            /\ lock_owner' = AfterRequest(t).owner
            /\ lock_waiters' = AfterRequest(t).waiters
  /\ UNCHANGED <<pool_size, pool, connections, initialized, created, closed, close_errors, conn, made,
                 raising, calls, cancels, outcome>>

\* `await asyncio.wait_for(self._pool.get(), ...)`, lines 102-105: a connection is there
AcquireGet(t) ==
  /\ pc[t] = "A_get"
  /\ pool # <<>>
  /\ conn' = [conn EXCEPT ![t] = Head(pool)]
  /\ pool' = Tail(pool)
  /\ pc' = [pc EXCEPT ![t] = "body"]
  /\ UNCHANGED <<pool_size, connections, initialized, lock_owner, lock_waiters, created, closed, close_errors,
                 stack, made, raising, calls, cancels, outcome>>

\* lines 102-105: the queue stayed empty for `timeout`; TimeoutError is raised
AcquireTimeout(t) ==
  /\ pc[t] = "A_get"
  /\ pool = <<>>
  /\ Unwind(t)
  /\ UNCHANGED <<pool_size, pool, connections, initialized, created, closed, close_errors, calls, cancels>>

\* the body of the `async with` ends, normally or by an exception: lines 107-108
BodyDone(t) ==
  /\ pc[t] = "body"
  /\ \E exc \in BOOLEAN : raising' = [raising EXCEPT ![t] = exc]
  /\ pc' = [pc EXCEPT ![t] = "A_put"]
  /\ UNCHANGED <<pool_size, pool, connections, initialized, lock_owner, lock_waiters, created,
                 closed, close_errors, stack, conn, made, calls, cancels, outcome>>

\* `finally: await self._pool.put(conn)`, line 109; then the caller goes on: a task,
\* or initialize at lines 93-94 (which returns to a task, or to acquire at line 102)
AcquirePut(t) ==
  LET outer == SubSeq(stack[t], 1, Len(stack[t]) - 1)
      rest == SubSeq(stack[t], 1, Len(stack[t]) - 2)
  IN /\ pc[t] = "A_put"
     /\ Len(pool) < pool_size
     /\ pool' = Append(pool, conn[t])
     /\ IF raising[t]
          THEN /\ Unwind(t)
               /\ UNCHANGED initialized
        ELSE IF outer = <<>>
          THEN /\ stack' = [stack EXCEPT ![t] = <<>>]
               /\ pc' = [pc EXCEPT ![t] = "idle"]
               /\ conn' = [conn EXCEPT ![t] = 0]
               /\ outcome' = [outcome EXCEPT ![t].kind = "returned"]
               /\ UNCHANGED <<initialized, lock_owner, lock_waiters, made, raising>>
          ELSE /\ initialized' = TRUE
               /\ lock_owner' = AfterRelease(lock_waiters).owner
               /\ lock_waiters' = AfterRelease(lock_waiters).waiters
               /\ stack' = [stack EXCEPT ![t] = rest]
               /\ pc' = [pc EXCEPT ![t] = IF rest = <<>> THEN "idle" ELSE "A_get"]
               /\ conn' = [conn EXCEPT ![t] = 0]
               /\ outcome' = IF rest = <<>> THEN [outcome EXCEPT ![t].kind = "returned"] ELSE outcome
               /\ UNCHANGED <<made, raising>>
     /\ UNCHANGED <<pool_size, connections, created, closed, close_errors, calls, cancels>>

\* DatabasePool.stats, lines 124-132
pool_stats ==
  [pool_size |-> pool_size, available |-> Len(pool), in_use |-> pool_size - Len(pool),
   initialized |-> initialized]

\* a teardown that gives up at the first conn.close() that raises
StopAtError(conns, bad) ==
  {conns[i] : i \in {k \in DOMAIN conns : \A j \in 1..(k - 1) : conns[j] \notin bad}}

\* the connections conn.close() is called on, lines 114-118: all of the roster, as
\* the `except Exception` of line 117 swallows what a close raises (bad: those that raise)
CloseTargets(conns, bad) == {conns[i] : i \in DOMAIN conns}

\* close holds the lock: lines 114-122
CloseRun(t) ==
  /\ pc[t] = "C_lock"
  /\ Granted(t)
  /\ \E bad \in SUBSET Roster :
       /\ closed' = closed \cup CloseTargets(connections, bad)
       /\ close_errors' = close_errors \cup (bad \cap CloseTargets(connections, bad))
  /\ connections' = <<>>
  /\ initialized' = FALSE
  /\ lock_owner' = AfterRelease(lock_waiters).owner
  /\ lock_waiters' = AfterRelease(lock_waiters).waiters
  /\ stack' = [stack EXCEPT ![t] = <<>>]
  /\ pc' = [pc EXCEPT ![t] = "idle"]
  /\ outcome' = [outcome EXCEPT ![t].kind = "returned"]
  /\ UNCHANGED <<pool_size, pool, created, conn, made, raising, calls, cancels>>

\* the task is cancelled where it waits: CancelledError is raised there. In the body
\* of an acquire the `finally` of line 108 runs first. A put waits only on a full queue.
Cancel(t) ==
  /\ pc[t] \in {"I_lock", "I_connect", "I_pragma", "I_put", "A_get", "body", "A_put", "C_lock"}
  /\ pc[t] \in {"I_put", "A_put"} => Len(pool) >= pool_size
  /\ ~raising[t]
  /\ cancels < MaxCancels
  /\ cancels' = cancels + 1
  /\ IF pc[t] = "body"
       THEN /\ raising' = [raising EXCEPT ![t] = TRUE]
            /\ pc' = [pc EXCEPT ![t] = "A_put"]
            /\ UNCHANGED <<lock_owner, lock_waiters, stack, conn, made, outcome>>
       ELSE Unwind(t)
  /\ UNCHANGED <<pool_size, pool, connections, initialized, created, closed, close_errors, calls>>

\* -------------------------------------------------------------- AppState
\* AppState.__init__, lines 56-92
InitStateRest ==
  /\ monitoring_active = FALSE
  /\ monitoring_task = None
  /\ state_lock_owner = NoTask
  /\ state_lock_waiters = <<>>
  /\ spc = [t \in Tasks |-> "idle"]
  /\ sarg = [t \in Tasks |-> None]
  /\ sret = [t \in Tasks |-> "none"]
  /\ scalls = [t \in Tasks |-> 0]
  /\ starts = <<>>
  /\ recorded = None
  /\ stats = [found |-> 0, processed |-> 0]
  /\ expect = [found |-> 0, processed |-> 0]
  /\ asked = [found |-> 0, plain |-> TRUE]
  /\ pruned = <<>>
  /\ tracked = {}
  /\ s2 = [s \in Stage2 |-> "new"]
  /\ snapshot = [t \in Tasks |-> {}]
  /\ ws_clients = <<>>
  /\ ws_lock_owner = NoTask
  /\ ws_lock_waiters = <<>>
  /\ ws_removed = {}
  /\ cls_instance = 0
  /\ g_state = 0
  /\ objs = <<>>
  /\ th = [w \in Threads |-> [pc |-> "idle", via |-> None, self |-> 0, ret |-> 0, n |-> 0]]

InitState ==
  /\ InitStateRest
  /\ registry = <<>>
  /\ regs = 0

\* `async with self._lock`: t takes the lock, or queues for it
StateLockRequest(t) ==
  IF state_lock_owner = NoTask /\ state_lock_waiters = <<>>
    THEN /\ state_lock_owner' = t
         /\ UNCHANGED state_lock_waiters
    ELSE /\ state_lock_waiters' = Append(state_lock_waiters, t)
         /\ UNCHANGED state_lock_owner

\* the end of `async with self._lock`: the first waiter, if any, takes the lock
StateLockRelease ==
  IF state_lock_waiters = <<>>
    THEN /\ state_lock_owner' = NoTask
         /\ UNCHANGED state_lock_waiters
    ELSE /\ state_lock_owner' = Head(state_lock_waiters)
         /\ state_lock_waiters' = Tail(state_lock_waiters)

\* t has been given the lock it asked for: it owns it and is not waiting for it (an
\* asyncio.Lock is not reentrant: a task that asks for the lock it holds waits)
HoldsStateLock(t) ==
  /\ state_lock_owner = t
  /\ \A i \in DOMAIN state_lock_waiters : state_lock_waiters[i] # t

\* a task calls a method of the AppState: up to the wait for the lock
StateCall(t, label) ==
  /\ spc[t] = "idle"
  /\ scalls[t] < MaxStateCalls
  /\ scalls' = [scalls EXCEPT ![t] = @ + 1]
  /\ spc' = [spc EXCEPT ![t] = label]
  /\ sret' = [sret EXCEPT ![t] = "none"]
  /\ StateLockRequest(t)

\* a start_monitoring that never finds monitoring running
NeverRunning == FALSE

\* `if self._monitoring_active`, line 103
AlreadyRunning == monitoring_active

\* a start that drops the handle
Dropped(task) == None

\* `self._monitoring_task = task`, line 106
Stored(task) == task

\* AppState.start_monitoring is called, lines 100-102
CallStartMonitoring(t, task) ==
  /\ StateCall(t, "start")
  /\ sarg' = [sarg EXCEPT ![t] = task]
  /\ UNCHANGED <<monitoring_active, monitoring_task, starts, recorded>>

\* AppState.start_monitoring holds the lock, lines 103-107
start_monitoring(t) ==
  /\ spc[t] = "start"
  /\ HoldsStateLock(t)
  /\ IF AlreadyRunning
       THEN /\ sret' = [sret EXCEPT ![t] = "False"]
            /\ starts' = Append(starts, "False")
            /\ UNCHANGED <<monitoring_active, monitoring_task, recorded>>
       ELSE /\ monitoring_active' = TRUE
            /\ monitoring_task' = Stored(sarg[t])
            /\ sret' = [sret EXCEPT ![t] = "True"]
            /\ starts' = Append(starts, "True")
            /\ recorded' = sarg[t]
  /\ StateLockRelease
  /\ spc' = [spc EXCEPT ![t] = "idle"]
  /\ UNCHANGED <<sarg, scalls>>

\* a stop_monitoring that leaves the stored handle where it is
Kept == monitoring_task

\* `self._monitoring_task = None`, line 114
Cleared == None

\* AppState.stop_monitoring is called, lines 109-111
CallStopMonitoring(t) ==
  /\ StateCall(t, "stop")
  /\ UNCHANGED <<monitoring_active, monitoring_task, sarg, starts, recorded>>

\* AppState.stop_monitoring holds the lock, lines 112-115: it returns the stored handle
stop_monitoring(t) ==
  /\ spc[t] = "stop"
  /\ HoldsStateLock(t)
  /\ monitoring_active' = FALSE
  /\ monitoring_task' = Cleared
  /\ sret' = [sret EXCEPT ![t] = monitoring_task]
  /\ starts' = <<>>
  /\ recorded' = None
  /\ StateLockRelease
  /\ spc' = [spc EXCEPT ![t] = "idle"]
  /\ UNCHANGED <<sarg, scalls>>

\* `async with state.locked()` is entered, lines 288-291
CallLocked(t) ==
  /\ StateCall(t, "locked")
  /\ UNCHANGED <<monitoring_active, monitoring_task, sarg, starts, recorded>>

\* AppState.locked holds the lock and yields to the caller's body, line 292
LockedYield(t) ==
  /\ spc[t] = "locked"
  /\ HoldsStateLock(t)
  /\ spc' = [spc EXCEPT ![t] = "locked_body"]
  /\ UNCHANGED <<monitoring_active, monitoring_task, state_lock_owner, state_lock_waiters,
                 sarg, sret, scalls, starts, recorded>>

\* the body of `async with state.locked()` ends: the lock is released
LockedExit(t) ==
  /\ spc[t] = "locked_body"
  /\ StateLockRelease
  /\ spc' = [spc EXCEPT ![t] = "idle"]
  /\ UNCHANGED <<monitoring_active, monitoring_task, sarg, sret, scalls, starts, recorded>>

\* a method of the AppState returns None and releases the lock
StateReturn(t) ==
  /\ HoldsStateLock(t)
  /\ StateLockRelease
  /\ spc' = [spc EXCEPT ![t] = IF spc[t] = "inside_increment" THEN "locked_body" ELSE "idle"]
  /\ sret' = [sret EXCEPT ![t] = None]
  /\ UNCHANGED <<sarg, scalls>>

\* `if found is not None: self._stats.found = found`, lines 140-141 (<<>> is None)
Given(arg, old) == IF arg # <<>> THEN arg[1] ELSE old

\* an increment that stores the delta in place of the sum
Overwritten(old, delta) == delta

\* `self._stats.found += found`, line 158
Incremented(old, delta) == old + delta

\* AppState.update_stats is called, lines 131-138
CallUpdateStats(t, a) ==
  /\ StateCall(t, "update")
  /\ sarg' = [sarg EXCEPT ![t] = a]
  /\ asked' = [asked EXCEPT !.plain = FALSE]
  /\ UNCHANGED <<stats, expect>>

\* AppState.update_stats holds the lock, lines 139-147
update_stats(t) ==
  /\ spc[t] = "update"
  /\ stats' = [found     |-> Given(sarg[t].found, stats.found),
               processed |-> Given(sarg[t].processed, stats.processed)]
  /\ expect' = [found     |-> IF sarg[t].found = <<>> THEN expect.found ELSE sarg[t].found[1],
                processed |-> IF sarg[t].processed = <<>> THEN expect.processed
                                                          ELSE sarg[t].processed[1]]
  /\ StateReturn(t)
  /\ UNCHANGED asked

\* AppState.increment_stats is called, lines 149-156
CallIncrementStats(t, d) ==
  /\ StateCall(t, "increment")
  /\ sarg' = [sarg EXCEPT ![t] = d]
  /\ asked' = [asked EXCEPT !.found = @ + d.found]
  /\ UNCHANGED <<stats, expect>>

\* AppState.increment_stats holds the lock, lines 157-161
increment_stats(t) ==
  /\ spc[t] \in {"increment", "inside_increment"}
  /\ stats' = [found     |-> Incremented(stats.found, sarg[t].found),
               processed |-> Incremented(stats.processed, sarg[t].processed)]
  /\ expect' = [found     |-> expect.found + sarg[t].found,
                processed |-> expect.processed + sarg[t].processed]
  /\ StateReturn(t)
  /\ UNCHANGED asked

\* AppState.increment_stats is called from the body of `async with state.locked()`,
\* lines 149-156: the caller asks for the lock again
CallIncrementStatsInside(t, d) ==
  /\ spc[t] = "locked_body"
  /\ scalls[t] < MaxStateCalls
  /\ scalls' = [scalls EXCEPT ![t] = @ + 1]
  /\ spc' = [spc EXCEPT ![t] = "inside_increment"]
  /\ sret' = [sret EXCEPT ![t] = "none"]
  /\ StateLockRequest(t)
  /\ sarg' = [sarg EXCEPT ![t] = d]
  /\ asked' = [asked EXCEPT !.found = @ + d.found]
  /\ UNCHANGED <<stats, expect>>

\* AppState.reset_stats is called, lines 163-164
CallResetStats(t) ==
  /\ StateCall(t, "reset")
  /\ asked' = [asked EXCEPT !.plain = FALSE]
  /\ UNCHANGED <<sarg, stats, expect>>

\* AppState.reset_stats holds the lock, lines 165-166
reset_stats(t) ==
  /\ spc[t] = "reset"
  /\ stats' = [found |-> 0, processed |-> 0]
  /\ expect' = [found |-> 0, processed |-> 0]
  /\ StateReturn(t)
  /\ UNCHANGED asked

\* the position of vacancy_id in the dict, 0 when it is not a key
IndexOf(vacancy_id) ==
  IF \E i \in 1..Len(registry) : registry[i].id = vacancy_id
    THEN CHOOSE i \in 1..Len(registry) : registry[i].id = vacancy_id
    ELSE 0

\* `self._improvement_tasks[vacancy_id] = {...}`, lines 232-235: a key the dict has keeps
\* its position, a new key goes to the end
Assign(vacancy_id, info) ==
  IF IndexOf(vacancy_id) # 0
    THEN [registry EXCEPT ![IndexOf(vacancy_id)] = info]
    ELSE Append(registry, info)

\* `info.get("status") in ("completed", "error")`, line 255
IsCompleted(info) == info.status \in {"completed", "error"}

\* `completed`, lines 253-256: the positions of the completed entries, in dict order
RECURSIVE Completed(_)
Completed(n) ==
  IF n = 0 THEN <<>>
  ELSE IF IsCompleted(registry[n]) THEN Append(Completed(n - 1), n)
  ELSE Completed(n - 1)

\* a slice that takes every element
Everything(seq, n) == seq

\* `completed[:-max_completed]`, line 259: a Python slice, so with 0 it is completed[:0]
AllButLast(seq, n) ==
  IF n = 0 \/ n >= Len(seq) THEN <<>> ELSE SubSeq(seq, 1, Len(seq) - n)

\* the dict without the entries at the given positions
RECURSIVE Deleted(_, _)
Deleted(n, positions) ==
  IF n = 0 THEN <<>>
  ELSE IF \E j \in 1..Len(positions) : positions[j] = n
    THEN Deleted(n - 1, positions)
    ELSE Append(Deleted(n - 1, positions), registry[n])

\* AppState.add_improvement_task is called, lines 229-231
CallAddImprovementTask(t, vacancy_id) ==
  /\ StateCall(t, "add")
  /\ sarg' = [sarg EXCEPT ![t] = vacancy_id]
  /\ UNCHANGED <<registry, regs, pruned>>

\* AppState.add_improvement_task holds the lock, lines 232-235
add_improvement_task(t) ==
  /\ spc[t] = "add"
  /\ registry' = Assign(sarg[t], [id |-> sarg[t], status |-> "running", reg |-> regs + 1])
  /\ regs' = regs + 1
  /\ StateReturn(t)
  /\ UNCHANGED pruned

\* AppState.update_improvement_task is called, lines 237-239
CallUpdateImprovementTask(t, vacancy_id, status) ==
  /\ StateCall(t, "update_task")
  /\ sarg' = [sarg EXCEPT ![t] = <<vacancy_id, status>>]
  /\ UNCHANGED <<registry, regs, pruned>>

\* AppState.update_improvement_task holds the lock, lines 240-243
update_improvement_task(t) ==
  /\ spc[t] = "update_task"
  /\ registry' = IF IndexOf(sarg[t][1]) # 0
                    THEN [registry EXCEPT ![IndexOf(sarg[t][1])].status = sarg[t][2]]
                    ELSE registry
  /\ StateReturn(t)
  /\ UNCHANGED <<regs, pruned>>

\* AppState.cleanup_improvement_tasks is called, lines 250-252
CallCleanupImprovementTasks(t, max_completed) ==
  /\ StateCall(t, "cleanup")
  /\ sarg' = [sarg EXCEPT ![t] = max_completed]
  /\ UNCHANGED <<registry, regs, pruned>>

\* AppState.cleanup_improvement_tasks holds the lock, lines 253-262
cleanup_improvement_tasks(t) ==
  /\ spc[t] = "cleanup"
  /\ LET completed == Completed(Len(registry))
         to_remove == IF Len(completed) > sarg[t]
                        THEN AllButLast(completed, sarg[t])
                        ELSE <<>>
     IN /\ registry' = Deleted(Len(registry), to_remove)
        /\ pruned' = [j \in 1..Len(to_remove) |-> registry[to_remove[j]]]
  /\ StateReturn(t)
  /\ UNCHANGED regs

\* AppState.track_stage2_task, lines 266-269: a plain method, it takes no lock and has
\* no await; t has created the task and tracks it
track_stage2_task(t, task) ==
  /\ spc[t] = "idle"
  /\ scalls[t] < MaxStateCalls
  /\ s2[task] = "new"
  /\ scalls' = [scalls EXCEPT ![t] = @ + 1]
  /\ tracked' = tracked \cup {task}
  /\ s2' = [s2 EXCEPT ![task] = "running"]
  /\ UNCHANGED <<state_lock_owner, state_lock_waiters, spc, sarg, sret, snapshot>>

\* a Stage 2 task ends (it finished, failed, or was cancelled) and its done callback,
\* `self._stage2_tasks.discard` of line 269, takes it out of the set
Stage2Done(task) ==
  /\ s2[task] \in {"running", "cancelling"}
  /\ s2' = [s2 EXCEPT ![task] = "done"]
  /\ tracked' = tracked \ {task}
  /\ UNCHANGED <<state_lock_owner, state_lock_waiters, spc, sarg, sret, scalls, snapshot>>

\* AppState.cancel_all_stage2_tasks up to the gather, lines 271-278: it takes no lock;
\* with no task tracked it returns at once
cancel_all_stage2_tasks(t) ==
  /\ spc[t] = "idle"
  /\ scalls[t] < MaxStateCalls
  /\ scalls' = [scalls EXCEPT ![t] = @ + 1]
  /\ snapshot' = [snapshot EXCEPT ![t] = tracked]
  /\ s2' = [task \in Stage2 |->
              IF task \in tracked /\ s2[task] # "done" THEN "cancelling" ELSE s2[task]]
  /\ IF tracked # {}
       THEN /\ spc' = [spc EXCEPT ![t] = "gather"]
            /\ sret' = [sret EXCEPT ![t] = "none"]
       ELSE /\ sret' = [sret EXCEPT ![t] = None]
            /\ UNCHANGED spc
  /\ UNCHANGED <<state_lock_owner, state_lock_waiters, sarg, tracked>>

\* the gather of line 278 returns: every task of `tasks` has ended
GatherReturns(t) ==
  /\ spc[t] = "gather"
  /\ \A task \in snapshot[t] : s2[task] = "done"
  /\ spc' = [spc EXCEPT ![t] = "idle"]
  /\ sret' = [sret EXCEPT ![t] = None]
  /\ UNCHANGED <<state_lock_owner, state_lock_waiters, sarg, scalls, tracked, s2, snapshot>>

\* `async with self._ws_lock`: t takes the lock, or queues for it
WsLockRequest(t) ==
  IF ws_lock_owner = NoTask /\ ws_lock_waiters = <<>>
    THEN /\ ws_lock_owner' = t
         /\ UNCHANGED ws_lock_waiters
    ELSE /\ ws_lock_waiters' = Append(ws_lock_waiters, t)
         /\ UNCHANGED ws_lock_owner

\* a task calls a WebSocket method of the AppState: up to the wait for the lock
WsCall(t, label, arg) ==
  /\ spc[t] = "idle"
  /\ scalls[t] < MaxStateCalls
  /\ scalls' = [scalls EXCEPT ![t] = @ + 1]
  /\ spc' = [spc EXCEPT ![t] = label]
  /\ sarg' = [sarg EXCEPT ![t] = arg]
  /\ sret' = [sret EXCEPT ![t] = "none"]
  /\ WsLockRequest(t)
  /\ UNCHANGED <<state_lock_owner, state_lock_waiters, ws_clients, ws_removed>>

\* a WebSocket method returns None: the end of `async with self._ws_lock`, where the
\* first waiter, if any, takes the lock
WsReturn(t) ==
  /\ ws_lock_owner = t
  /\ IF ws_lock_waiters = <<>>
       THEN /\ ws_lock_owner' = NoTask
            /\ UNCHANGED ws_lock_waiters
       ELSE /\ ws_lock_owner' = Head(ws_lock_waiters)
            /\ ws_lock_waiters' = Tail(ws_lock_waiters)
  /\ spc' = [spc EXCEPT ![t] = "idle"]
  /\ sret' = [sret EXCEPT ![t] = None]
  /\ UNCHANGED <<state_lock_owner, state_lock_waiters, sarg, scalls>>

\* a membership test that never finds the client
Unknown(list, client) == FALSE

\* `client in self._ws_clients`, lines 198, 205 and 218
Known(list, client) == \E i \in DOMAIN list : list[i] = client

\* list.remove(client): the first element equal to client is taken out
ListRemove(list, client) ==
  LET i == CHOOSE i \in DOMAIN list : list[i] = client /\ \A j \in 1..(i - 1) : list[j] # client
  IN SubSeq(list, 1, i - 1) \o SubSeq(list, i + 1, Len(list))

\* the loop of cleanup_ws_clients, lines 217-219, over the dead clients from position n
RECURSIVE RemoveDead(_, _, _)
RemoveDead(list, dead_clients, n) ==
  IF n > Len(dead_clients) THEN list
  ELSE RemoveDead(IF Known(list, dead_clients[n]) THEN ListRemove(list, dead_clients[n]) ELSE list,
                  dead_clients, n + 1)

\* AppState.add_ws_client holds the lock, lines 198-200
add_ws_client(t) ==
  /\ spc[t] = "add_ws"
  /\ ws_clients' = IF ~Known(ws_clients, sarg[t]) THEN Append(ws_clients, sarg[t]) ELSE ws_clients
  /\ WsReturn(t)
  /\ UNCHANGED ws_removed

\* AppState.remove_ws_client holds the lock, lines 205-207
remove_ws_client(t) ==
  /\ spc[t] = "remove_ws"
  /\ ws_clients' = IF Known(ws_clients, sarg[t]) THEN ListRemove(ws_clients, sarg[t]) ELSE ws_clients
  /\ ws_removed' = {c \in Clients : Known(ws_clients, c) /\ ~Known(ws_clients', c)}
  /\ WsReturn(t)

\* AppState.cleanup_ws_clients holds the lock, lines 217-221
cleanup_ws_clients(t) ==
  /\ spc[t] = "cleanup_ws"
  /\ ws_clients' = RemoveDead(ws_clients, sarg[t], 1)
  /\ ws_removed' = {c \in Clients : Known(ws_clients, c) /\ ~Known(ws_clients', c)}
  /\ WsReturn(t)

\* AppState.get_ws_clients holds the lock, lines 211-212: it returns a copy of the list
get_ws_clients(t) ==
  /\ spc[t] = "get_ws"
  /\ WsReturn(t)
  /\ UNCHANGED <<ws_clients, ws_removed>>

\* a thread calls AppState(), line 50
CallAppState(w) ==
  /\ th[w].pc = "idle"
  /\ th[w].n < MaxConstructs
  /\ th' = [th EXCEPT ![w].pc = "new_test", ![w].via = "AppState", ![w].n = @ + 1]
  /\ UNCHANGED <<cls_instance, g_state, objs>>

\* a thread calls get_state(), line 298
CallGetState(w) ==
  /\ th[w].pc = "idle"
  /\ th[w].n < MaxConstructs
  /\ th' = [th EXCEPT ![w].pc = "get_test", ![w].via = "get_state", ![w].n = @ + 1]
  /\ UNCHANGED <<cls_instance, g_state, objs>>

\* get_state: `if _state is None`, line 301
GetTest(w) ==
  /\ th[w].pc = "get_test"
  /\ th' = [th EXCEPT ![w].pc = IF g_state = 0 THEN "new_test" ELSE "get_return"]
  /\ UNCHANGED <<cls_instance, g_state, objs>>

\* AppState.__new__: `if cls._instance is None`, line 51
NewTest(w) ==
  /\ th[w].pc = "new_test"
  /\ th' = [th EXCEPT ![w].pc = IF cls_instance = 0 THEN "new_create" ELSE "new_return"]
  /\ UNCHANGED <<cls_instance, g_state, objs>>

\* AppState.__new__: `cls._instance = super().__new__(cls)`, line 52; the new object
\* reads _initialized from the class, where it is False (line 48)
NewCreate(w) ==
  /\ th[w].pc = "new_create"
  /\ objs' = Append(objs, [initialized |-> FALSE, inits |-> 0])
  /\ cls_instance' = Len(objs) + 1
  /\ th' = [th EXCEPT ![w].pc = "new_flag"]
  /\ UNCHANGED g_state

\* AppState.__new__: `cls._instance._initialized = False`, line 53
NewFlag(w) ==
  /\ th[w].pc = "new_flag"
  /\ objs' = [objs EXCEPT ![cls_instance].initialized = FALSE]
  /\ th' = [th EXCEPT ![w].pc = "new_return"]
  /\ UNCHANGED <<cls_instance, g_state>>

\* AppState.__new__: `return cls._instance`, line 54; __init__ is then called on it
NewReturn(w) ==
  /\ th[w].pc = "new_return"
  /\ th' = [th EXCEPT ![w].pc = "init_test", ![w].self = cls_instance]
  /\ UNCHANGED <<cls_instance, g_state, objs>>

\* where a thread goes when AppState() has returned: back to its caller, or to line 302
Constructed(w) ==
  IF th[w].via = "get_state"
    THEN [th EXCEPT ![w].pc = "get_assign"]
    ELSE [th EXCEPT ![w].pc = "idle", ![w].ret = th[w].self]

\* AppState.__init__: `if self._initialized: return`, lines 57-58
InitTest(w) ==
  /\ th[w].pc = "init_test"
  /\ th' = IF objs[th[w].self].initialized THEN Constructed(w)
                                           ELSE [th EXCEPT ![w].pc = "init_flag"]
  /\ UNCHANGED <<cls_instance, g_state, objs>>

\* AppState.__init__: `self._initialized = True`, line 60
InitFlag(w) ==
  /\ th[w].pc = "init_flag"
  /\ objs' = [objs EXCEPT ![th[w].self].initialized = TRUE]
  /\ th' = [th EXCEPT ![w].pc = "init_fields"]
  /\ UNCHANGED <<cls_instance, g_state>>

\* AppState.__init__: the fields are set to their initial values, lines 61-92
InitFields(w) ==
  /\ th[w].pc = "init_fields"
  /\ objs' = [objs EXCEPT ![th[w].self].inits = @ + 1]
  /\ th' = Constructed(w)
  /\ UNCHANGED <<cls_instance, g_state>>

\* get_state: `_state = AppState()`, line 302
GetAssign(w) ==
  /\ th[w].pc = "get_assign"
  /\ g_state' = th[w].self
  /\ th' = [th EXCEPT ![w].pc = "get_return"]
  /\ UNCHANGED <<cls_instance, objs>>

\* get_state: `return _state`, line 303
GetReturn(w) ==
  /\ th[w].pc = "get_return"
  /\ th' = [th EXCEPT ![w].pc = "idle", ![w].ret = g_state]
  /\ UNCHANGED <<cls_instance, g_state, objs>>

NextCache ==
  \/ \E key \in Keys : get(key) /\ UNCHANGED <<aiVars, poolVars, stateVars>>
  \/ \E key \in Keys, value \in Values, ttl \in TtlArgs : set(key, value, ttl) /\ UNCHANGED <<aiVars, poolVars, stateVars>>
  \/ \E key \in Keys : delete(key) /\ UNCHANGED <<aiVars, poolVars, stateVars>>
  \/ clear /\ UNCHANGED <<aiVars, poolVars, stateVars>>
  \/ cleanup_expired /\ UNCHANGED <<aiVars, poolVars, stateVars>>
  \/ Tick /\ UNCHANGED <<aiVars, poolVars, stateVars>>

\* The cache alone: one pool that nobody calls.
InitSpecCache ==
  /\ InitCache
  /\ max_size \in Capacities
  /\ InitPool
  /\ pool_size = 1
  /\ InitState
  /\ InitAi

SpecCache == InitSpecCache /\ [][NextCache]_vars

\* The same operations storing one value.
NextSweep ==
  \/ \E key \in Keys : get(key) /\ UNCHANGED <<aiVars, poolVars, stateVars>>
  \/ \E key \in Keys, ttl \in TtlArgs : set(key, "v1", ttl) /\ UNCHANGED <<aiVars, poolVars, stateVars>>
  \/ \E key \in Keys : delete(key) /\ UNCHANGED <<aiVars, poolVars, stateVars>>
  \/ clear /\ UNCHANGED <<aiVars, poolVars, stateVars>>
  \/ cleanup_expired /\ UNCHANGED <<aiVars, poolVars, stateVars>>
  \/ Tick /\ UNCHANGED <<aiVars, poolVars, stateVars>>

SpecSweep == InitSpecCache /\ [][NextSweep]_vars

\* The same operations with no clock advance and the default TTL, on more keys.
NextLru ==
  \/ \E key \in LruKeys : get(key) /\ UNCHANGED <<aiVars, poolVars, stateVars>>
  \/ \E key \in LruKeys : set(key, "v1", <<>>) /\ UNCHANGED <<aiVars, poolVars, stateVars>>
  \/ \E key \in LruKeys : delete(key) /\ UNCHANGED <<aiVars, poolVars, stateVars>>
  \/ clear /\ UNCHANGED <<aiVars, poolVars, stateVars>>

InitSpecLru ==
  /\ InitCache
  /\ max_size \in LruCapacities
  /\ InitPool
  /\ pool_size = 1
  /\ InitState
  /\ InitAi

SpecLru == InitSpecLru /\ [][NextLru]_vars

\* Gets, sets and deletes of the cache up to MaxStatGets gets, the clock standing still.
NextHits ==
  \/ \E key \in Keys : GetUpTo(key, MaxStatGets) /\ UNCHANGED <<aiVars, poolVars, stateVars>>
  \/ \E key \in Keys : set(key, "v1", <<>>) /\ UNCHANGED <<aiVars, poolVars, stateVars>>
  \/ \E key \in Keys : delete(key) /\ UNCHANGED <<aiVars, poolVars, stateVars>>

SpecHits == InitSpecCache /\ [][NextHits]_vars

\* Tasks calling cached_ai_call on one key space while time passes.
NextAi ==
  \/ \E t \in Tasks, key \in Keys, ttl \in AiTtls : AiCallGet(t, key, ttl) /\ UNCHANGED <<poolVars, stateVars>>
  \/ \E t \in Tasks, result \in Values \cup {None} : AiCompute(t, result) /\ UNCHANGED <<poolVars, stateVars>>
  \/ Tick /\ UNCHANGED <<aiVars, poolVars, stateVars>>

SpecAi == InitSpecCache /\ [][NextAi]_vars

\* One set_recruiter_analysis, then one get_recruiter_analysis, on a fresh AIResponseCache.
NextRecruiter ==
  \/ \E v \in Texts, r \in Texts, m \in Models :
       set_recruiter_analysis(v, r, m, "v1") /\ UNCHANGED <<poolVars, stateVars>>
  \/ \E v \in Texts, r \in Texts, m \in Models :
       get_recruiter_analysis(v, r, m) /\ UNCHANGED <<poolVars, stateVars>>

SpecRecruiter == InitSpecCache /\ [][NextRecruiter]_vars

\* One set of either request category, then one get of either, on a fresh AIResponseCache.
NextCategories ==
  \/ \E v \in Texts, r \in Texts, m \in Models :
       set_recruiter_analysis(v, r, m, "v1") /\ UNCHANGED <<poolVars, stateVars>>
  \/ \E v \in Texts, m \in Models :
       set_vacancy_analysis(v, m, "v2") /\ UNCHANGED <<poolVars, stateVars>>
  \/ \E v \in Texts, r \in Texts, m \in Models :
       get_recruiter_analysis(v, r, m) /\ UNCHANGED <<poolVars, stateVars>>
  \/ \E v \in Texts, m \in Models :
       get_vacancy_analysis(v, m) /\ UNCHANGED <<poolVars, stateVars>>

SpecCategories == InitSpecCache /\ [][NextCategories]_vars

\* Every step of the pool's code.
NextPoolAll ==
  \/ \E t \in Tasks : CallInitialize(t) /\ UNCHANGED <<cacheVars, aiVars, stateVars>>
  \/ \E t \in Tasks : CallAcquire(t) /\ UNCHANGED <<cacheVars, aiVars, stateVars>>
  \/ \E t \in Tasks : CallClose(t) /\ UNCHANGED <<cacheVars, aiVars, stateVars>>
  \/ \E t \in Tasks : InitLocked(t) /\ UNCHANGED <<cacheVars, aiVars, stateVars>>
  \/ \E t \in Tasks : InitConnect(t) /\ UNCHANGED <<cacheVars, aiVars, stateVars>>
  \/ \E t \in Tasks : InitConnectFails(t) /\ UNCHANGED <<cacheVars, aiVars, stateVars>>
  \/ \E t \in Tasks : InitAppend(t) /\ UNCHANGED <<cacheVars, aiVars, stateVars>>
  \/ \E t \in Tasks : InitPut(t) /\ UNCHANGED <<cacheVars, aiVars, stateVars>>
  \/ \E t \in Tasks : InitSchemaAcquire(t) /\ UNCHANGED <<cacheVars, aiVars, stateVars>>
  \/ \E t \in Tasks : AcquireGet(t) /\ UNCHANGED <<cacheVars, aiVars, stateVars>>
  \/ \E t \in Tasks : AcquireTimeout(t) /\ UNCHANGED <<cacheVars, aiVars, stateVars>>
  \/ \E t \in Tasks : BodyDone(t) /\ UNCHANGED <<cacheVars, aiVars, stateVars>>
  \/ \E t \in Tasks : AcquirePut(t) /\ UNCHANGED <<cacheVars, aiVars, stateVars>>
  \/ \E t \in Tasks : CloseRun(t) /\ UNCHANGED <<cacheVars, aiVars, stateVars>>
  \/ \E t \in Tasks : Cancel(t) /\ UNCHANGED <<cacheVars, aiVars, stateVars>>

\* The pool alone (one cache that nobody calls), tasks cancelled at will.
InitSpecPool ==
  /\ InitCache
  /\ max_size = 1
  /\ InitPool
  /\ InitState
  /\ InitAi

SpecPoolAll == InitSpecPool /\ [][NextPoolAll]_vars

\* The steps that occur when no task is cancelled.
NextPool ==
  \/ \E t \in Tasks : CallInitialize(t) /\ UNCHANGED <<cacheVars, aiVars, stateVars>>
  \/ \E t \in Tasks : CallAcquire(t) /\ UNCHANGED <<cacheVars, aiVars, stateVars>>
  \/ \E t \in Tasks : CallClose(t) /\ UNCHANGED <<cacheVars, aiVars, stateVars>>
  \/ \E t \in Tasks : InitLocked(t) /\ UNCHANGED <<cacheVars, aiVars, stateVars>>
  \/ \E t \in Tasks : InitConnect(t) /\ UNCHANGED <<cacheVars, aiVars, stateVars>>
  \/ \E t \in Tasks : InitAppend(t) /\ UNCHANGED <<cacheVars, aiVars, stateVars>>
  \/ \E t \in Tasks : InitSchemaAcquire(t) /\ UNCHANGED <<cacheVars, aiVars, stateVars>>
  \/ \E t \in Tasks : CloseRun(t) /\ UNCHANGED <<cacheVars, aiVars, stateVars>>

SpecPool == InitSpecPool /\ [][NextPool]_vars

\* The event loop runs every task that can go on.
PoolStep(t) ==
  /\ \/ InitLocked(t)
     \/ InitConnect(t)
     \/ InitAppend(t)
     \/ InitSchemaAcquire(t)
     \/ CloseRun(t)
  /\ UNCHANGED <<cacheVars, aiVars, stateVars>>

FairSpecPool == InitSpecPool /\ [][NextPool]_vars /\ \A t \in Tasks : WF_vars(PoolStep(t))

\* The pool when aiosqlite.connect may raise and no task is cancelled.
NextPoolFail ==
  \/ NextPool
  \/ \E t \in Tasks : InitConnectFails(t) /\ UNCHANGED <<cacheVars, aiVars, stateVars>>

SpecPoolFail == InitSpecPool /\ [][NextPoolFail]_vars

\* Callers of initialize and acquire that are cancelled at will; aiosqlite.connect
\* succeeds and nobody calls close.
NextPoolCancel ==
  \/ \E t \in Tasks : CallInitialize(t) /\ UNCHANGED <<cacheVars, aiVars, stateVars>>
  \/ \E t \in Tasks : CallAcquire(t) /\ UNCHANGED <<cacheVars, aiVars, stateVars>>
  \/ \E t \in Tasks : InitLocked(t) /\ UNCHANGED <<cacheVars, aiVars, stateVars>>
  \/ \E t \in Tasks : InitConnect(t) /\ UNCHANGED <<cacheVars, aiVars, stateVars>>
  \/ \E t \in Tasks : InitAppend(t) /\ UNCHANGED <<cacheVars, aiVars, stateVars>>
  \/ \E t \in Tasks : InitSchemaAcquire(t) /\ UNCHANGED <<cacheVars, aiVars, stateVars>>
  \/ \E t \in Tasks : Cancel(t) /\ UNCHANGED <<cacheVars, aiVars, stateVars>>

SpecPoolCancel == InitSpecPool /\ [][NextPoolCancel]_vars

\* What the AppState does not touch.
others == <<cacheVars, aiVars, poolVars, wsFields, singletonFields>>

\* The AppState alone: one cache and one pool that nobody calls.
NextState ==
  \/ \E t \in Tasks, task \in Handles : CallStartMonitoring(t, task) /\ UNCHANGED <<others, statsFields, registryFields, stage2Fields>>
  \/ \E t \in Tasks : start_monitoring(t) /\ UNCHANGED <<others, statsFields, registryFields, stage2Fields>>
  \/ \E t \in Tasks : CallStopMonitoring(t) /\ UNCHANGED <<others, statsFields, registryFields, stage2Fields>>
  \/ \E t \in Tasks : stop_monitoring(t) /\ UNCHANGED <<others, statsFields, registryFields, stage2Fields>>
  \/ \E t \in Tasks : CallLocked(t) /\ UNCHANGED <<others, statsFields, registryFields, stage2Fields>>
  \/ \E t \in Tasks : LockedYield(t) /\ UNCHANGED <<others, statsFields, registryFields, stage2Fields>>
  \/ \E t \in Tasks : LockedExit(t) /\ UNCHANGED <<others, statsFields, registryFields, stage2Fields>>

InitSpecState ==
  /\ InitCache
  /\ max_size = 1
  /\ InitPool
  /\ pool_size = 1
  /\ InitState
  /\ InitAi

SpecState == InitSpecState /\ [][NextState]_vars

\* The counters of the AppState: tasks that update, increment and reset them.
NextStats ==
  \/ \E t \in Tasks, a \in UpdateArgs : CallUpdateStats(t, a) /\ UNCHANGED <<others, monitoringFields, registryFields, stage2Fields>>
  \/ \E t \in Tasks : update_stats(t) /\ UNCHANGED <<others, monitoringFields, registryFields, stage2Fields>>
  \/ \E t \in Tasks, d \in IncrementArgs : CallIncrementStats(t, d) /\ UNCHANGED <<others, monitoringFields, registryFields, stage2Fields>>
  \/ \E t \in Tasks : increment_stats(t) /\ UNCHANGED <<others, monitoringFields, registryFields, stage2Fields>>
  \/ \E t \in Tasks : CallResetStats(t) /\ UNCHANGED <<others, monitoringFields, registryFields, stage2Fields>>
  \/ \E t \in Tasks : reset_stats(t) /\ UNCHANGED <<others, monitoringFields, registryFields, stage2Fields>>

SpecStats == InitSpecState /\ [][NextStats]_vars

\* Tasks that enter `async with state.locked()` and call increment_stats, from inside
\* the block or outside of it.
NextLocked ==
  \/ \E t \in Tasks : CallLocked(t) /\ UNCHANGED <<others, statsFields, registryFields, stage2Fields>>
  \/ \E t \in Tasks : LockedYield(t) /\ UNCHANGED <<others, statsFields, registryFields, stage2Fields>>
  \/ \E t \in Tasks : LockedExit(t) /\ UNCHANGED <<others, statsFields, registryFields, stage2Fields>>
  \/ \E t \in Tasks, d \in IncrementArgs : CallIncrementStats(t, d) /\ UNCHANGED <<others, monitoringFields, registryFields, stage2Fields>>
  \/ \E t \in Tasks, d \in IncrementArgs : CallIncrementStatsInside(t, d) /\ UNCHANGED <<others, monitoringFields, registryFields, stage2Fields>>
  \/ \E t \in Tasks : increment_stats(t) /\ UNCHANGED <<others, monitoringFields, registryFields, stage2Fields>>

\* The event loop runs every task that can go on, and the body of a locked() block ends.
LockedStep(t) ==
  \/ LockedYield(t) /\ UNCHANGED <<others, statsFields, registryFields, stage2Fields>>
  \/ LockedExit(t) /\ UNCHANGED <<others, statsFields, registryFields, stage2Fields>>
  \/ increment_stats(t) /\ UNCHANGED <<others, monitoringFields, registryFields, stage2Fields>>

FairSpecLocked == InitSpecState /\ [][NextLocked]_vars /\ \A t \in Tasks : WF_vars(LockedStep(t))

\* What the WebSocket methods do not touch.
wsOthers == <<cacheVars, aiVars, poolVars, monitoringFields, statsFields, registryFields,
              stage2Fields, singletonFields>>

\* The WebSocket clients of the AppState: handlers that add and remove clients, and the
\* broadcaster that lists them and takes the dead ones out.
NextWs ==
  \/ \E t \in Connections, client \in Clients : WsCall(t, "add_ws", client) /\ UNCHANGED wsOthers
  \/ \E t \in Connections : add_ws_client(t) /\ UNCHANGED wsOthers
  \/ \E t \in Connections, client \in Clients : WsCall(t, "remove_ws", client) /\ UNCHANGED wsOthers
  \/ \E t \in Connections : remove_ws_client(t) /\ UNCHANGED wsOthers
  \/ \E dead_clients \in DeadLists : WsCall(Broadcaster, "cleanup_ws", dead_clients) /\ UNCHANGED wsOthers
  \/ cleanup_ws_clients(Broadcaster) /\ UNCHANGED wsOthers
  \/ WsCall(Broadcaster, "get_ws", None) /\ UNCHANGED wsOthers
  \/ get_ws_clients(Broadcaster) /\ UNCHANGED wsOthers

SpecWs == InitSpecState /\ [][NextWs]_vars

\* What the construction of the AppState does not touch.
appVars == <<cacheVars, aiVars, poolVars, state_lock_owner, state_lock_waiters, spc, sarg,
             sret, scalls, monitoringFields, statsFields, registryFields, stage2Fields,
             wsFields>>

\* Threads that call AppState() and get_state(); a thread switch can happen between
\* any two statements.
NextSingleton ==
  \/ \E w \in Threads : CallAppState(w) /\ UNCHANGED appVars
  \/ \E w \in Threads : CallGetState(w) /\ UNCHANGED appVars
  \/ \E w \in Threads : GetTest(w) /\ UNCHANGED appVars
  \/ \E w \in Threads : NewTest(w) /\ UNCHANGED appVars
  \/ \E w \in Threads : NewCreate(w) /\ UNCHANGED appVars
  \/ \E w \in Threads : NewFlag(w) /\ UNCHANGED appVars
  \/ \E w \in Threads : NewReturn(w) /\ UNCHANGED appVars
  \/ \E w \in Threads : InitTest(w) /\ UNCHANGED appVars
  \/ \E w \in Threads : InitFlag(w) /\ UNCHANGED appVars
  \/ \E w \in Threads : InitFields(w) /\ UNCHANGED appVars
  \/ \E w \in Threads : GetAssign(w) /\ UNCHANGED appVars
  \/ \E w \in Threads : GetReturn(w) /\ UNCHANGED appVars

SpecSingleton == InitSpecState /\ [][NextSingleton]_vars

\* The Stage 2 tasks of the AppState: tasks that track them and cancel them all, and
\* tasks that hold the lock through `async with state.locked()`.
NextStage2 ==
  \/ \E t \in Tasks, task \in Stage2 : track_stage2_task(t, task) /\ UNCHANGED <<others, monitoringFields, statsFields, registryFields>>
  \/ \E task \in Stage2 : Stage2Done(task) /\ UNCHANGED <<others, monitoringFields, statsFields, registryFields>>
  \/ \E t \in Tasks : cancel_all_stage2_tasks(t) /\ UNCHANGED <<others, monitoringFields, statsFields, registryFields>>
  \/ \E t \in Tasks : GatherReturns(t) /\ UNCHANGED <<others, monitoringFields, statsFields, registryFields>>
  \/ \E t \in Tasks : CallLocked(t) /\ UNCHANGED <<others, statsFields, registryFields, stage2Fields>>
  \/ \E t \in Tasks : LockedYield(t) /\ UNCHANGED <<others, statsFields, registryFields, stage2Fields>>
  \/ \E t \in Tasks : LockedExit(t) /\ UNCHANGED <<others, statsFields, registryFields, stage2Fields>>

SpecStage2 == InitSpecState /\ [][NextStage2]_vars

\* The improvement tasks of the AppState: tasks that register them, set their status
\* and clean the registry up.
NextRegistry ==
  \/ \E vacancy_id \in VacancyIds : CallAddImprovementTask(Handler, vacancy_id) /\ UNCHANGED <<others, monitoringFields, statsFields, stage2Fields>>
  \/ add_improvement_task(Handler) /\ UNCHANGED <<others, monitoringFields, statsFields, stage2Fields>>
  \/ \E a \in StatusArgs : CallUpdateImprovementTask(Improvement, a[1], a[2]) /\ UNCHANGED <<others, monitoringFields, statsFields, stage2Fields>>
  \/ update_improvement_task(Improvement) /\ UNCHANGED <<others, monitoringFields, statsFields, stage2Fields>>
  \/ \E max_completed \in MaxCompleted : CallCleanupImprovementTasks(Housekeeper, max_completed) /\ UNCHANGED <<others, monitoringFields, statsFields, stage2Fields>>
  \/ cleanup_improvement_tasks(Housekeeper) /\ UNCHANGED <<others, monitoringFields, statsFields, stage2Fields>>

\* The registry is empty, or two add_improvement_task calls have run.
InitSpecRegistry ==
  /\ InitCache
  /\ max_size = 1
  /\ InitPool
  /\ pool_size = 1
  /\ InitAi
  /\ InitStateRest
  /\ \/ registry = <<>> /\ regs = 0
     \/ /\ registry = <<[id |-> "va", status |-> "running", reg |-> 1],
                        [id |-> "vb", status |-> "running", reg |-> 2]>>
        /\ regs = 2

SpecRegistry == InitSpecRegistry /\ [][NextRegistry]_vars

\* ------------------------------------------------------------ cache claims
Last == cache[Len(cache)]

\* the TTL a set asked for: its ttl argument, or default_ttl when none was given
RequestedTtl(e) == IF e.ttl_arg = <<>> THEN default_ttl ELSE e.ttl_arg[1]

\* C1: with max_size >= 1 the cache never holds more than max_size entries, and no
\* key is stored twice, after any sequence of get, set, delete, clear,
\* cleanup_expired and clock advances.
C1_SizeBounded ==
  /\ Len(cache) <= max_size
  /\ \A i, j \in DOMAIN cache : i # j => cache[i].key # cache[j].key

\* a set on a full cache of two entries evicted one and left the cache full
C1_Witness ==
  /\ last.op = "set"
  /\ last.removed # {}
  /\ max_size = 2
  /\ Len(cache) = max_size

\* C2: a set of a new key on a full cache removes exactly one entry, the least
\* recently used one (least recently set or successfully read), and keeps the rest.
C2_EvictsLeastRecentlyUsed ==
  [][(last'.op = "set" /\ last'.key \notin KeysOf(cache) /\ Len(cache) = max_size)
       => KeysOf(cache') = (KeysOf(cache) \ {Head(used)}) \cup {last'.key}]_vars

\* C3: a set of a key that is already present leaves the size and the set of keys
\* unchanged, also on a full cache.
C3_OverwriteKeepsOthers ==
  [][(last'.op = "set" /\ last'.key \in KeysOf(cache))
       => (Len(cache') = Len(cache) /\ KeysOf(cache') = KeysOf(cache))]_vars

\* C4: after set(key, ...) the key is at the most recently used position, whether
\* it was new or overwritten, and its created_at is the time of the set.
C4_SetIsMostRecent ==
  last.op = "set" =>
    /\ cache # <<>>
    /\ Last.key = last.key
    /\ Last.created_at = now

\* C5: a successful get(key) leaves key at the most recently used position; a set
\* that follows it directly and evicts from a cache that held another entry
\* (max_size >= 2) evicts another key and keeps the key just read.
C5_GetPromotes ==
  /\ (last.op = "get" /\ last.ret # None) => (cache # <<>> /\ Last.key = last.key)
  /\ (last.op = "set" /\ last.after_hit # None /\ last.removed # {} /\ max_size >= 2)
       => (last.after_hit \in KeysOf(cache) /\ last.after_hit \notin last.removed)

\* capacity 2: a key was read, and the set of a new key right after evicted another one
C5_Witness ==
  /\ max_size = 2
  /\ last.op = "set"
  /\ last.after_hit # None
  /\ last.after_hit # last.key
  /\ last.removed # {}
  /\ Len(cache) = 2
  /\ cache[1].key = last.after_hit

\* C6: get never returns the value of an entry that is older than the TTL it was
\* set with; a get that returns absent leaves the key absent.
C6_GetHonoursTtl ==
  last.op = "get" =>
    IF last.ret # None
      THEN /\ cache # <<>>
           /\ Last.key = last.key
           /\ Last.value = last.ret
           /\ now - Last.created_at <= RequestedTtl(Last)
      ELSE last.key \notin KeysOf(cache)

\* C7: an entry set with ttl=0 is never returned by a get once the clock has moved
\* past the time of the set, whatever default_ttl is.
C7_ZeroTtlExpiresAtOnce ==
  \A i \in DOMAIN cache :
    (last.op = "get" /\ last.key = cache[i].key /\ cache[i].ttl_arg = <<0>>
       /\ now > cache[i].created_at)
      => last.ret = None

\* ------------------------------------------------------------- pool claims
\* the connections borrowers hold: taken from the queue and not yet put back
Held == {conn[t] : t \in {u \in Tasks : pc[u] \in {"body", "A_put"}}}

\* initialize never reaches line 93, and no acquire ever reaches line 102: the
\* nested initialize of line 100 waits for the lock its own task holds
PoolNeverInitialized ==
  /\ initialized = FALSE
  /\ \A t \in Tasks : pc[t] \notin {"A_get", "body", "A_put"}
  /\ Held = {}

\* C8: the first call of initialize() on a fresh pool (the constructor succeeding)
\* eventually returns, with exactly pool_size connections made and the pool
\* marked initialized.
C8_FirstInitializeReturns ==
  \A t \in Tasks :
    (stack[t] = <<"initialize">> /\ calls[t] = 1 /\ \A u \in Tasks \ {t} : calls[u] = 0)
      ~> (stack[t] = <<>> /\ initialized /\ created = pool_size)

Range(q) == {q[i] : i \in DOMAIN q}

\* t is inside DatabasePool.acquire: called by the task, or by initialize at line 77
InAcquire(t) == \E i \in DOMAIN stack[t] : stack[t][i] = "acquire"

C16_InitializeAfterClose ==
  \A t \in Tasks :
    ((\E u \in Tasks : outcome[u] = [call |-> "close", kind |-> "returned"])
       /\ ~initialized /\ stack[t] = <<"initialize">>)
      ~> (/\ outcome[t] = [call |-> "initialize", kind |-> "returned"]
          /\ initialized
          /\ Len(connections) = pool_size
          /\ Range(pool) = Roster
          /\ Roster \cap closed = {})

\* C17: when aiosqlite.connect raises in initialize, the exception reaches the
\* caller, the pool stays uninitialized, and no connection the failed call made is
\* left in the queue or in the roster.
C17_FailedInitializeLeavesNothing ==
  [][\A t \in Tasks :
       (pc[t] = "I_connect" /\ outcome'[t].kind = "raised")
         => /\ ~initialized'
            /\ \A c \in (created - made[t] + 1)..created :
                 c \notin Range(pool') /\ c \notin Range(connections')]_vars

\* C18: close() calls conn.close() on every connection of the roster, whichever of
\* them raise, and returns normally with an empty roster and initialized = False.
C18_CloseSwallowsErrors ==
  [][\A t \in Tasks :
       (pc[t] = "C_lock" /\ pc'[t] = "idle")
         => /\ Roster \subseteq closed'
            /\ connections' = <<>>
            /\ ~initialized'
            /\ outcome'[t] = [call |-> "close", kind |-> "returned"]]_vars

\* a close() of a roster of two connections has returned although conn.close() raised
\* on the first of them
C18_Witness ==
  /\ connections = <<>>
  /\ ~initialized
  /\ {1, 2} \subseteq closed
  /\ 1 \in close_errors
  /\ \E t \in Tasks : outcome[t] = [call |-> "close", kind |-> "returned"]

\* C19: a caller waiting inside acquire (no borrower holding a connection for ever,
\* the caller not timing out) is eventually given a connection.
C19_WaiterIsServed ==
  \A t \in Tasks :
    (stack[t] # <<>> /\ Head(stack[t]) = "acquire") ~> (pc[t] = "body")

\* ---------------------------------------------------------- AppState claims
\* C20: of the start_monitoring calls that return between two stop_monitoring (or
\* since construction), the first returns True and stores its handle with the flag
\* set, every other returns False and leaves the flag and the stored handle as they are.
C20_OneStartWins ==
  [][\A t \in Tasks :
       (spc[t] = "start" /\ spc'[t] = "idle")
         => /\ starts'[1] = "True"
            /\ \A i \in 2..Len(starts') : starts'[i] = "False"
            /\ IF starts = <<>>
                 THEN /\ sret'[t] = "True"
                      /\ monitoring_active'
                      /\ monitoring_task' = sarg[t]
                 ELSE /\ sret'[t] = "False"
                      /\ monitoring_active' = monitoring_active
                      /\ monitoring_task' = monitoring_task]_vars

\* three start_monitoring calls that waited for the lock together have returned: the
\* first True, the others False, and the handle stored is the first caller's
C20_Witness ==
  /\ starts = <<"True", "False", "False">>
  /\ monitoring_active
  /\ \E t \in Tasks :
       /\ sret[t] = "True"
       /\ monitoring_task = sarg[t]
       /\ \A u \in Tasks \ {t} : sret[u] = "False" /\ sarg[u] # sarg[t] /\ scalls[u] = 1

\* ------------------------------------------------------------- stats claims
\* C29: every get that returns a value adds one to the hits stats reports and every
\* get that returns None adds one to the misses, nothing else changes them, and the
\* hit rate stats reports is hits / (hits + misses), or 0 when no get has occurred.
C29_StatsCountGets ==
  [][/\ IF last'.op = "get"
          THEN IF last'.ret # None
                 THEN cache_stats'.hits = cache_stats.hits + 1 /\ cache_stats'.misses = cache_stats.misses
                 ELSE cache_stats'.misses = cache_stats.misses + 1 /\ cache_stats'.hits = cache_stats.hits
          ELSE cache_stats'.hits = cache_stats.hits /\ cache_stats'.misses = cache_stats.misses
     /\ IF hits' + misses' = 0
          THEN cache_stats'.hit_rate = 0
          ELSE cache_stats'.hit_rate * (hits' + misses') = 1000 * hits']_vars

\* --------------------------------------------------------- AI cache claims
\* C26: when func returns None, cached_ai_call returns None and leaves the cache as
\* it is; no entry ever holds None; and a call that finds no entry for its key calls func.
C26_NoneIsNotCached ==
  [][/\ \A i \in DOMAIN cache' : cache'[i].value # None
     /\ \A t \in Tasks :
          /\ (ai_call[t].pc = "compute" /\ ai_call'[t].pc = "idle" /\ ai_call'[t].ret = None)
               => cache' = cache
          /\ (ai_call[t].pc = "idle" /\ ai_call'[t].n = ai_call[t].n + 1
                /\ ai_call'[t].key \notin KeysOf(cache))
               => (ai_call'[t].pc = "compute" /\ ai_call'[t].computes = 1)]_vars

\* a task whose call got None from func and returned None has called again with the
\* same key, found nothing, and waits for func once more
C26_Witness ==
  \E t \in Tasks :
    /\ ai_call[t].n = 2
    /\ ai_call[t].prev_key = ai_call[t].key
    /\ ai_call[t].prev_ret = None
    /\ ai_call[t].pc = "compute"
    /\ ai_call[t].computes = 1
    /\ \A u \in Tasks \ {t} : ai_call[u].n = 0

\* C27: on a key with an unexpired entry cached_ai_call returns its value and does
\* not call func; on a miss it calls func once, and a result other than None is
\* stored under the key with the ttl given and returned.
C27_GetOrCompute ==
  [][\A t \in Tasks :
       /\ (ai_call[t].pc = "idle" /\ ai_call'[t].n = ai_call[t].n + 1)
            => IF ai_call'[t].key \in KeysOf(cache)
                    /\ now - EntryOf(cache, ai_call'[t].key).created_at
                         <= RequestedTtl(EntryOf(cache, ai_call'[t].key))
                 THEN /\ ai_call'[t].pc = "idle"
                      /\ ai_call'[t].ret = EntryOf(cache, ai_call'[t].key).value
                      /\ ai_call'[t].computes = 0
                 ELSE ai_call'[t].pc = "compute" /\ ai_call'[t].computes = 1
       /\ (ai_call[t].pc = "compute" /\ ai_call'[t].pc = "idle" /\ ai_call'[t].ret # None)
            => /\ ai_call'[t].computes = 1
               /\ ai_call[t].key \in KeysOf(cache')
               /\ EntryOf(cache', ai_call[t].key).value = ai_call'[t].ret
               /\ EntryOf(cache', ai_call[t].key).created_at = now
               /\ EntryOf(cache', ai_call[t].key).ttl = ai_call[t].ttl[1]]_vars

\* C28: after set_recruiter_analysis(v, r1, m), get_recruiter_analysis(v, r2, m) is a
\* miss whenever r1 and r2 differ within their first PrefixLen characters.
C28_DifferentResumesDifferentKeys ==
  (/\ recruiter.step = 2
   /\ recruiter.gv = recruiter.v
   /\ recruiter.gm = recruiter.m
   /\ Slice(recruiter.gr, PrefixLen) # Slice(recruiter.r, PrefixLen))
    => last.ret = None

\* ------------------------------------------------------------- AppState claims
\* C21: stop_monitoring sets the monitoring flag false, clears the stored handle and
\* returns the handle recorded by the latest start_monitoring that returned True (None
\* if there is none); after that the handle is no longer recorded, so that no other
\* stop_monitoring returns it, also when the stops waited for the lock together.
C21_StopReturnsRecordedHandle ==
  [][\A t \in Tasks :
       (spc[t] = "stop" /\ spc'[t] = "idle")
         => /\ ~monitoring_active'
            /\ monitoring_task' = None
            /\ sret'[t] = recorded
            /\ recorded' = None]_vars

\* two stop_monitoring calls and one start_monitoring have returned: one stop returned
\* the handle of the start, the other None
C21_Witness ==
  \E t \in Tasks, u \in Tasks, w \in Tasks :
    /\ t # u
    /\ scalls[t] = 1 /\ scalls[u] = 1 /\ scalls[w] = 1
    /\ spc[t] = "idle" /\ spc[u] = "idle" /\ spc[w] = "idle"
    /\ sret[w] = "True"
    /\ sret[t] = sarg[w]
    /\ sret[u] = None
    /\ ~monitoring_active
    /\ monitoring_task = None

\* C22: increment_stats and update_stats are atomic with respect to each other: in every
\* interleaving the counters are those the calls give when applied one after the other
\* in the order they returned, and when only increment_stats was called and every call
\* has returned, found is the sum of the found deltas of the calls.
C22_StatsAreAtomic ==
  /\ stats = expect
  /\ (asked.plain /\ \A t \in Tasks : spc[t] = "idle") => stats.found = asked.found

\* three increment_stats(found=1) that were in flight together have all returned
C22_Witness ==
  /\ asked.plain
  /\ asked.found = 3
  /\ stats.found = 3
  /\ \A t \in Tasks : spc[t] = "idle" /\ scalls[t] = 1 /\ sarg[t] \in IncrementArgs

\* how many entries of a registry are completed or error
CompletedIn(reg) == Cardinality({i \in 1..Len(reg) : IsCompleted(reg[i])})

\* C24: cleanup_improvement_tasks(max_completed=N) removes no entry whose status is
\* running, and when more than N completed or error entries exist it leaves at least N
\* of them in the registry.
C24_CleanupKeepsRunningAndN ==
  [][\A t \in Tasks :
       (spc[t] = "cleanup" /\ spc'[t] = "idle")
         => /\ \A i \in 1..Len(registry) :
                 ~IsCompleted(registry[i]) => registry[i] \in Range(registry')
            /\ CompletedIn(registry) > sarg[t] => CompletedIn(registry') >= sarg[t]]_vars

\* a cleanup has removed an entry and left a running one and a completed one
C24_Witness ==
  /\ pruned # <<>>
  /\ \E i \in 1..Len(registry) : registry[i].status = "running"
  /\ \E i \in 1..Len(registry) : IsCompleted(registry[i])

\* C25: the completed or error entries cleanup_improvement_tasks keeps are the most
\* recent ones: every entry it removes was registered earlier than every completed or
\* error entry it keeps, counting for each id its latest add_improvement_task.
C25_CleanupKeepsMostRecent ==
  [][\A t \in Tasks :
       (spc[t] = "cleanup" /\ spc'[t] = "idle")
         => \A i \in 1..Len(pruned'), j \in 1..Len(registry') :
              IsCompleted(registry'[j]) => pruned'[i].reg < registry'[j].reg]_vars

\* C23: when cancel_all_stage2_tasks returns, the tracked set is empty and every task
\* that was tracked has ended (finished, failed or cancelled), also a task that was
\* tracked while the call was waiting.
C23_CancelAllLeavesNothing ==
  [][\A t \in Tasks :
       \/ spc[t] = "gather" /\ spc'[t] = "idle"
       \/ spc[t] = "idle" /\ spc'[t] = "idle" /\ scalls'[t] # scalls[t] /\ tracked' = tracked
       => /\ tracked' = {}
          /\ \A task \in Stage2 : s2'[task] \in {"new", "done"}]_vars

\* the fields of the AppState that its lock guards
GuardedFields == <<monitoring_active, monitoring_task, stats, registry, tracked>>

\* C30: every mutation of the monitoring flag and handle, the counters, the registry of
\* improvement tasks and the tracked set is made by a caller that holds the lock of the
\* AppState.
C30_MutationsUnderLock ==
  [][GuardedFields' # GuardedFields
       => /\ state_lock_owner # NoTask
          /\ spc'[state_lock_owner] # spc[state_lock_owner]]_vars

\* ------------------------------------------------------------- cache counters
\* C32: every get adds one to exactly one of hits and misses, to misses when the key
\* is absent or its entry expired and to hits otherwise, no other operation changes
\* either counter, and hits + misses is the number of get calls made so far.
C32_EveryGetCounted ==
  /\ [](hits + misses = gets)
  /\ [][IF last'.op = "get"
          THEN LET missed == \/ last'.key \notin KeysOf(cache)
                             \/ now - EntryOf(cache, last'.key).created_at
                                  > EntryOf(cache, last'.key).ttl
               IN IF missed
                    THEN misses' = misses + 1 /\ hits' = hits /\ last'.ret = None
                    ELSE hits' = hits + 1 /\ misses' = misses /\ last'.ret # None
          ELSE hits' = hits /\ misses' = misses]_vars

\* two gets were made: one returned a value, the other found its entry expired
C32_Witness ==
  /\ gets = 2
  /\ hits = 1
  /\ misses = 1
  /\ last.op = "get"
  /\ last.removed # {}

\* C33: cleanup_expired removes exactly the entries that are expired when it is called
\* and returns their number; the entries that are not expired stay, in the order they
\* had, and hits and misses stay as they were.
C33_CleanupRemovesExpired ==
  [][last'.op = "cleanup_expired"
       => /\ \A i \in DOMAIN cache :
               (cache[i] \in Range(cache')) <=> ~(now - cache[i].created_at > cache[i].ttl)
          /\ \A i \in DOMAIN cache' : cache'[i] \in Range(cache)
          /\ \A i \in DOMAIN cache', j \in DOMAIN cache' :
               i < j => \E a \in DOMAIN cache, b \in DOMAIN cache :
                          a < b /\ cache[a] = cache'[i] /\ cache[b] = cache'[j]
          /\ last'.count = Len(cache) - Len(cache')
          /\ hits' = hits /\ misses' = misses]_vars

\* a cleanup_expired has removed an expired entry and left one that is not expired
C33_Witness ==
  /\ last.op = "cleanup_expired"
  /\ last.count >= 1
  /\ Len(cache) >= 1

\* C34: a value stored through one request category of the AIResponseCache is never
\* returned by a lookup of the other: a get_vacancy_analysis after a
\* set_recruiter_analysis, and a get_recruiter_analysis after a set_vacancy_analysis,
\* returns None, whatever the texts are.
C34_CategoriesApart ==
  (recruiter.step = 2 /\ recruiter.cat # recruiter.gcat) => last.ret = None

\* ------------------------------------------------------------- pool statistics
\* C36: in every reachable state stats reports as in_use the number of connections
\* that borrowers hold, and as available the number of live connections waiting in the
\* queue, also before initialization and after close().
C36_StatsCountConnections ==
  /\ pool_stats.in_use = Cardinality(Held)
  /\ pool_stats.available = Cardinality({i \in DOMAIN pool : pool[i] \notin closed})

\* C37: whenever no start_monitoring or stop_monitoring call is under way, the
\* monitoring flag is true if and only if a task handle is stored (start_monitoring
\* being given a handle that is not None).
C37_FlagIffHandle ==
  (\A t \in Tasks : spc[t] \notin {"start", "stop"})
    => (monitoring_active <=> monitoring_task # None)

\* monitoring was started, stopped and started again, and no call is under way
C37_Witness ==
  /\ \A t \in Tasks : spc[t] = "idle"
  /\ monitoring_active
  /\ monitoring_task \in Handles
  /\ \E t \in Tasks : sret[t] \in Handles
  /\ \E t \in Tasks : sret[t] = "True" /\ scalls[t] = 2

\* C38: after cleanup_improvement_tasks(max_completed=N) returns, for every N >= 0,
\* the registry holds at most N entries whose status is completed or error.
C38_CleanupLeavesAtMostN ==
  [][\A t \in Tasks :
       (spc[t] = "cleanup" /\ spc'[t] = "idle") => CompletedIn(registry') <= sarg[t]]_vars

\* C39: a task that has entered locked() and calls another operation of the AppState
\* from inside the block (here increment_stats) gets that call completed: it does not
\* wait for ever for the lock.
C39_CallInsideLockedCompletes ==
  \A t \in Tasks : (spc[t] = "inside_increment") ~> (spc[t] = "locked_body")

\* C40: the list of WebSocket clients never holds the same client twice, whatever the
\* interleaving of add_ws_client, remove_ws_client and cleanup_ws_clients, and after
\* remove_ws_client(c), or cleanup_ws_clients(D) with c in D, c is not in the list
\* while the other clients are as they were.
C40_ClientsOnceAndRemoved ==
  /\ [](\A i \in DOMAIN ws_clients, j \in DOMAIN ws_clients :
           i # j => ws_clients[i] # ws_clients[j])
  /\ [][\A t \in Tasks :
          /\ (spc[t] = "remove_ws" /\ spc'[t] = "idle")
               => ws_clients' = SelectSeq(ws_clients, LAMBDA c : c # sarg[t])
          /\ (spc[t] = "cleanup_ws" /\ spc'[t] = "idle")
               => ws_clients' = SelectSeq(ws_clients, LAMBDA c : c \notin Range(sarg[t]))]_vars

\* a cleanup_ws_clients has taken a client out of the list and the other one is in it:
\* one handler made no call and the other one none that names the removed client
C40_Witness ==
  /\ ws_removed # {}
  /\ Len(ws_clients) = 1
  /\ ws_clients[1] \notin ws_removed
  /\ spc[Broadcaster] = "idle"
  /\ scalls["t2"] = 0
  /\ scalls["t1"] > 0
  /\ sret["t1"] = None
  /\ \A t \in Connections : spc[t] = "idle" /\ sarg[t] \notin ws_removed

\* C31: under concurrent first access AppState() and get_state() make at most one
\* AppState object and set its fields once: every caller gets the same object, and no
\* later construction sets the fields again.
C31_OneInstance ==
  /\ Len(objs) <= 1
  /\ \A o \in DOMAIN objs : objs[o].inits <= 1
  /\ \A w \in Threads, u \in Threads : (th[w].ret # 0 /\ th[u].ret # 0) => th[w].ret = th[u].ret

====
